---- MODULE Spec2Model ----
(***************************************************************************)
(* Model of the hierarchical multi-agent graph of react_agent/graph.py and *)
(* of the simulated session tool of react_agent/tools.py.                  *)
(*                                                                         *)
(* One conversation thread is modelled.  Its State (react_agent/state.py)  *)
(* is the record of the variables below; a node reads it, assigns fields   *)
(* (state.x = v) and returns updates, and both are taken to update the     *)
(* thread's State, as the comments of graph.py rely on ("Set active agent  *)
(* *before* returning").  The conditional edge that follows a node is      *)
(* evaluated in the same step as the node.  Language-model replies, search *)
(* payloads and user messages are inputs drawn from small sets.            *)
(*                                                                         *)
(* Strings that the code inspects are sequences of one-token strings, so   *)
(* that strip(), upper(), split() and the `in` operator are computed.      *)
(* graph.py:568-569 only maintains conversation_context, which no modelled *)
(* decision reads; that field is left out of the state.                    *)
(***************************************************************************)
EXTENDS Integers, Sequences, FiniteSets, TLC

\* ---------------------------------------------------------------- bounds
MaxUserMsgs == 2
RecursionLimit == 5
MaxParts == 2
MaxCalls == 4
MaxHandoffs == 2
MaxQueries == 3
MaxRegistrations == 2
MaxMemories == 2

\* ------------------------------------------------------------- constants
SESSION_STATE_CHECKING == "session_checking"
SESSION_STATE_WAITING_FOR_NAME == "session_waiting_for_name"

\* Python's None for atom-valued fields and for text-valued fields.
None == "None"
NoneText == <<"<None>">>

\* ------------------------------------------------------- string helpers
IsSpace(c) == c \in {" ", "\n", "\t"}

RECURSIVE lstrip(_)
lstrip(s) == IF s # <<>> /\ IsSpace(Head(s)) THEN lstrip(Tail(s)) ELSE s

RECURSIVE rstrip(_)
rstrip(s) == IF s # <<>> /\ IsSpace(s[Len(s)]) THEN rstrip(SubSeq(s, 1, Len(s) - 1)) ELSE s

\* str.strip()
strip(s) == rstrip(lstrip(s))

LowerLetters == <<"a","b","c","d","e","f","g","h","i","j","k","l","m","n","o","p","q","r","s","t","u","v","w","x","y","z">>
UpperLetters == <<"A","B","C","D","E","F","G","H","I","J","K","L","M","N","O","P","Q","R","S","T","U","V","W","X","Y","Z">>

upper_char(c) ==
    IF \E i \in 1..Len(LowerLetters) : LowerLetters[i] = c
    THEN UpperLetters[CHOOSE i \in 1..Len(LowerLetters) : LowerLetters[i] = c]
    ELSE c

\* str.upper()
upper(s) == [i \in 1..Len(s) |-> upper_char(s[i])]

\* Python's `sub in s` on strings.
contains(s, sub) ==
    \E i \in 1..(Len(s) - Len(sub) + 1) : SubSeq(s, i, i + Len(sub) - 1) = sub

\* Truthiness of an Optional[str].
Truthy(t) == t # NoneText /\ t # <<>>

Last(s) == s[Len(s)]

\* ------------------------------------------------------------- messages
\* A tool call of an AIMessage: tool name, its one text argument
\* (user_name_to_set or query; NoneText when absent) and the call id.
ToolCall(name, args, id) == [name |-> name, args |-> args, id |-> id]

\* The content of a ToolMessage is text; payload is that text, kept as the
\* JSON value it spells ("error_text" spells no JSON value).
NoPayload == [kind |-> "", user_name |-> NoneText, user_uid |-> 0]
SessionJson(name, uid) == [kind |-> "session_object", user_name |-> name, user_uid |-> uid]
OtherJson(kind) == [kind |-> kind, user_name |-> NoneText, user_uid |-> 0]

Msg(type, name) ==
    [type |-> type, name |-> name, content |-> <<>>, tool_calls |-> <<>>,
     tool_call_id |-> 0, payload |-> NoPayload, status |-> "",
     is_context |-> FALSE, search_results |-> "", original_query |-> <<>>]

HumanMessage(content) == [Msg("human", "") EXCEPT !.content = content]
AIMessage(name, content) == [Msg("ai", name) EXCEPT !.content = content]
ToolMessage(name, payload, id) ==
    [Msg("tool", name) EXCEPT !.payload = payload, !.tool_call_id = id]

NoMsg == Msg("none", "")

\* ------------------------------------------------ tools.py: session tool
EmptyStore == [user_name |-> NoneText, user_uid |-> 0]

\* manage_user_session that draws a new id on every upsert.
manage_user_session_fresh_uid(store, user_name_to_set, uuids) ==
    IF Truthy(user_name_to_set)
    THEN LET user_uid == uuids + 1
         IN [store |-> [user_name |-> user_name_to_set, user_uid |-> user_uid],
             payload |-> SessionJson(user_name_to_set, user_uid),
             uuids |-> uuids + 1]
    ELSE IF store # EmptyStore /\ Truthy(store.user_name) /\ store.user_uid # 0
         THEN [store |-> store,
               payload |-> SessionJson(store.user_name, store.user_uid),
               uuids |-> uuids]
         ELSE [store |-> store, payload |-> SessionJson(NoneText, 0), uuids |-> uuids]

\* manage_user_session that keeps the stored id only when the name changes.
manage_user_session_rekeys_same_name(store, user_name_to_set, uuids) ==
    IF Truthy(user_name_to_set)
    THEN LET user_uid == IF store # EmptyStore /\ store.user_name # user_name_to_set
                         THEN store.user_uid ELSE uuids + 1
         IN [store |-> [user_name |-> user_name_to_set, user_uid |-> user_uid],
             payload |-> SessionJson(user_name_to_set, user_uid),
             uuids |-> uuids + 1]
    ELSE IF store # EmptyStore /\ Truthy(store.user_name) /\ store.user_uid # 0
         THEN [store |-> store,
               payload |-> SessionJson(store.user_name, store.user_uid),
               uuids |-> uuids]
         ELSE [store |-> store, payload |-> SessionJson(NoneText, 0), uuids |-> uuids]

\* manage_user_session whose lookup never finds the stored session.
manage_user_session_blind_lookup(store, user_name_to_set, uuids) ==
    IF Truthy(user_name_to_set)
    THEN LET user_uid == IF store # EmptyStore THEN store.user_uid ELSE uuids + 1
         IN [store |-> [user_name |-> user_name_to_set, user_uid |-> user_uid],
             payload |-> SessionJson(user_name_to_set, user_uid),
             uuids |-> uuids + 1]
    ELSE [store |-> store, payload |-> SessionJson(NoneText, 0), uuids |-> uuids]

\* manage_user_session(user_name_to_set): new store, returned JSON text and
\* the number of uuid4() values drawn.
manage_user_session(store, user_name_to_set, uuids) ==
    IF Truthy(user_name_to_set)
    THEN LET user_uid == IF store # EmptyStore THEN store.user_uid ELSE uuids + 1
         IN [store |-> [user_name |-> user_name_to_set, user_uid |-> user_uid],
             payload |-> SessionJson(user_name_to_set, user_uid),
             uuids |-> uuids + 1]
    ELSE IF store # EmptyStore /\ Truthy(store.user_name) /\ store.user_uid # 0
         THEN [store |-> store,
               payload |-> SessionJson(store.user_name, store.user_uid),
               uuids |-> uuids]
         ELSE [store |-> store, payload |-> SessionJson(NoneText, 0), uuids |-> uuids]

\* What the search tool can return: a list of results, an empty list, or its
\* own error entry (tools.py:119-122); always JSON.
SearchPayloads == {"result_list", "empty_list", "search_error_list"}

\* run_tools that answers only the first call of a message.
run_tools_first_only(calls, store, uuids, search_out) ==
    IF calls = <<>> THEN [msgs |-> <<>>, store |-> store, uuids |-> uuids]
    ELSE LET c == Head(calls)
             r == manage_user_session(store, c.args, uuids)
             pl == IF c.name = "manage_user_session" THEN r.payload
                   ELSE IF c.name = "search" THEN OtherJson(Head(search_out))
                   ELSE OtherJson("error_text")
         IN [msgs |-> <<ToolMessage(c.name, pl, c.id)>>,
             store |-> IF c.name = "manage_user_session" THEN r.store ELSE store,
             uuids |-> IF c.name = "manage_user_session" THEN r.uuids ELSE uuids]

\* ToolNode: one ToolMessage per tool call of the last AIMessage, in order.
\* A call to a tool that is not in TOOLS is answered with an error text.
RECURSIVE run_tools(_, _, _, _)
run_tools(calls, store, uuids, search_out) ==
    IF calls = <<>> THEN [msgs |-> <<>>, store |-> store, uuids |-> uuids]
    ELSE LET c == Head(calls)
             r == manage_user_session(store, c.args, uuids)
             st1 == IF c.name = "manage_user_session" THEN r.store ELSE store
             u1 == IF c.name = "manage_user_session" THEN r.uuids ELSE uuids
             pl == IF c.name = "manage_user_session" THEN r.payload
                   ELSE IF c.name = "search" THEN OtherJson(Head(search_out))
                   ELSE OtherJson("error_text")
             rest == run_tools(Tail(calls), st1, u1, Tail(search_out))
         IN [msgs |-> <<ToolMessage(c.name, pl, c.id)>> \o rest.msgs,
             store |-> rest.store, uuids |-> rest.uuids]

\* What a tool result holds when the tool did not deliver its value: the
\* executor's error text, or JSON text of another shape.
ExecutorFailures == {"error_text", "null", "non_object_list"}
ExecutorOutcomes == {"ok"} \cup ExecutorFailures

\* ToolNode over tools that may fail: call i is answered as run_tools answers
\* it when outcome[i] = "ok", and with the failure payload outcome[i]
\* otherwise, in which case the tool left the store alone.
RECURSIVE run_tools_failing(_, _, _, _, _)
run_tools_failing(calls, store, uuids, search_out, outcome) ==
    IF calls = <<>> THEN [msgs |-> <<>>, store |-> store, uuids |-> uuids]
    ELSE LET c == Head(calls)
             one == IF Head(outcome) = "ok"
                    THEN run_tools(<<c>>, store, uuids, <<Head(search_out)>>)
                    ELSE [msgs |-> <<ToolMessage(c.name, OtherJson(Head(outcome)), c.id)>>,
                          store |-> store, uuids |-> uuids]
             rest == run_tools_failing(Tail(calls), one.store, one.uuids,
                                       Tail(search_out), Tail(outcome))
         IN [msgs |-> one.msgs \o rest.msgs, store |-> rest.store, uuids |-> rest.uuids]

\* -------------------------------------------------- graph.py: the nodes
\* A node works on the record s of the thread's State fields (plus uuids,
\* the number of uuid4() values drawn so far) and returns the record after
\* its assignments and returned updates.  branch, output, target and raised
\* record what the invocation did: the branch taken, the classifier output
\* read, the routing target chosen, the exception raised.

\* WithIds that gives every call of a message the same id.
WithIds_reused(calls, uuids) ==
    [i \in 1..Len(calls) |-> ToolCall(calls[i].name, calls[i].args, uuids + 1)]

\* uuid4()-based (or provider-made) call ids for the calls of one message.
WithIds(calls, uuids) ==
    [i \in 1..Len(calls) |-> ToolCall(calls[i].name, calls[i].args, uuids + i)]

last_message(s) == IF s.messages = <<>> THEN NoMsg ELSE Last(s.messages)

current_user_name(s) == IF Truthy(s.user_name) THEN s.user_name ELSE <<"User">>

\* session_info that reads the name but not the id.
session_info_drops_uid(payload) ==
    IF payload.kind = "session_object"
    THEN [user_name |-> payload.user_name, user_uid |-> 0, raised |-> ""]
    ELSE IF payload.kind = "error_text"
    THEN [user_name |-> NoneText, user_uid |-> 0, raised |-> ""]
    ELSE [user_name |-> NoneText, user_uid |-> 0, raised |-> "AttributeError"]

\* session_info that lets the decoding error of an unparseable result out.
session_info_strict(payload) ==
    IF payload.kind = "session_object"
    THEN [user_name |-> payload.user_name, user_uid |-> payload.user_uid, raised |-> ""]
    ELSE IF payload.kind = "error_text"
    THEN [user_name |-> NoneText, user_uid |-> 0, raised |-> "JSONDecodeError"]
    ELSE [user_name |-> NoneText, user_uid |-> 0, raised |-> "AttributeError"]

\* json.loads of a session tool result followed by the two .get() calls
\* (graph.py:234-247): "raise" when the value parsed has no .get().
session_info(payload) ==
    IF payload.kind = "session_object"
    THEN [user_name |-> payload.user_name, user_uid |-> payload.user_uid, raised |-> ""]
    ELSE IF payload.kind = "error_text"
    THEN [user_name |-> NoneText, user_uid |-> 0, raised |-> ""]
    ELSE [user_name |-> NoneText, user_uid |-> 0, raised |-> "AttributeError"]

\* Specialist result presentation, WebSearchAgent carrier (graph.py:89-168).
\* A non-empty list whose first entry is not the tool's error entry is
\* formatted entry by entry with result.get() (graph.py:109-113), which
\* raises when the entries are not objects.
pa_present_search(s) ==
    LET m == last_message(s)
        result_message ==
            [AIMessage("PersonalAssistant", <<"synthesized">>) EXCEPT
                !.status = "presenting_search_results",
                !.original_query = m.original_query]
    IN IF m.search_results = "non_object_list"
       THEN [s EXCEPT !.raised = "AttributeError", !.branch = "present_search"]
       ELSE
       [s EXCEPT !.messages = Append(@, result_message),
                 !.active_agent = None,
                 !.routing_reason = None,
                 !.specialist_results = FALSE,
                 !.next = "__end__",
                 !.branch = "present_search"]

\* Specialist result presentation, FeaturesAgent / DeepResearch
\* (graph.py:172-208).
pa_present_specialist(s) ==
    LET result_message ==
            [AIMessage("PersonalAssistant", <<"synthesized">>) EXCEPT
                !.status = "presenting_specialist_results"]
    IN [s EXCEPT !.messages = Append(@, result_message),
                 !.active_agent = None,
                 !.routing_reason = None,
                 !.specialist_results = FALSE,
                 !.next = "__end__",
                 !.branch = "present_specialist"]

\* pa_new_user_check that answers the message next to the lookup request.
pa_new_user_check_answers(s) ==
    LET call == AIMessage("PersonalAssistantSessionToolCall", <<>>)
    IN [s EXCEPT !.first_message = FALSE,
                 !.session_state = SESSION_STATE_CHECKING,
                 !.uuids = @ + 1,
                 !.messages = Append(@, [call EXCEPT !.content = <<"reply">>, !.tool_calls =
                     <<ToolCall("manage_user_session", NoneText, s.uuids + 1)>>]),
                 !.active_agent = "personal_assistant",
                 !.branch = "session_lookup"]

\* A. New user check (graph.py:212-229).
pa_new_user_check(s) ==
    LET call == AIMessage("PersonalAssistantSessionToolCall", <<>>)
    IN [s EXCEPT !.first_message = FALSE,
                 !.session_state = SESSION_STATE_CHECKING,
                 !.uuids = @ + 1,
                 !.messages = Append(@, [call EXCEPT !.tool_calls =
                     <<ToolCall("manage_user_session", NoneText, s.uuids + 1)>>]),
                 !.active_agent = "personal_assistant",
                 !.branch = "session_lookup"]

\* pa_session_result without the reset of session_state when a name is found.
pa_session_result_keeps_checking(s) ==
    LET info == session_info(last_message(s).payload)
    IN IF Truthy(info.user_name)
       THEN [s EXCEPT !.user_name = info.user_name,
                      !.user_uid = info.user_uid,
                      !.active_agent = None,
                      !.messages = Append(@,
                          [AIMessage("PersonalAssistant", <<"Welcome back, ">> \o info.user_name)
                              EXCEPT !.status = "greeting_returning_user"]),
                      !.next = "__end__",
                      !.branch = "session_found"]
       ELSE [s EXCEPT !.session_state = SESSION_STATE_WAITING_FOR_NAME,
                      !.active_agent = None,
                      !.messages = Append(@,
                          [AIMessage("PersonalAssistant", <<"What's your name?">>)
                              EXCEPT !.status = "greeting_new_user"]),
                      !.next = "__end__",
                      !.branch = "session_ask_name"]

\* pa_session_result that asks for the name but stays in checking.
pa_session_result_asks_and_stays(s) ==
    LET info == session_info(last_message(s).payload)
        found_name == info.user_name
        found_uid == info.user_uid
    IN IF info.raised # "" THEN [s EXCEPT !.raised = info.raised, !.branch = "session_result"]
       ELSE IF Truthy(found_name)
       THEN [s EXCEPT !.user_name = found_name,
                      !.user_uid = found_uid,
                      !.session_state = None,
                      !.active_agent = None,
                      !.messages = Append(@,
                          [AIMessage("PersonalAssistant", <<"Welcome back, ">> \o found_name)
                              EXCEPT !.status = "greeting_returning_user"]),
                      !.next = "__end__",
                      !.branch = "session_found"]
       ELSE [s EXCEPT !.active_agent = None,
                      !.messages = Append(@,
                          [AIMessage("PersonalAssistant", <<"What's your name?">>)
                              EXCEPT !.status = "greeting_new_user"]),
                      !.next = "__end__",
                      !.branch = "session_ask_name"]

\* B. Session check result (graph.py:232-277).
pa_session_result(s) ==
    LET info == session_info(last_message(s).payload)
        found_name == info.user_name
        found_uid == info.user_uid
    IN IF info.raised # "" THEN [s EXCEPT !.raised = info.raised, !.branch = "session_result"]
       ELSE IF Truthy(found_name)
       THEN [s EXCEPT !.user_name = found_name,
                      !.user_uid = found_uid,
                      !.session_state = None,
                      !.active_agent = None,
                      !.messages = Append(@,
                          [AIMessage("PersonalAssistant", <<"Welcome back, ">> \o found_name)
                              EXCEPT !.status = "greeting_returning_user"]),
                      !.next = "__end__",
                      !.branch = "session_found"]
       ELSE [s EXCEPT !.session_state = SESSION_STATE_WAITING_FOR_NAME,
                      !.active_agent = None,
                      !.messages = Append(@,
                          [AIMessage("PersonalAssistant", <<"What's your name?">>)
                              EXCEPT !.status = "greeting_new_user"]),
                      !.next = "__end__",
                      !.branch = "session_ask_name"]

\* pa_name_provided that leaves session_state at waiting_for_name.
pa_name_provided_keeps_waiting(s) ==
    LET extracted_name == strip(last_message(s).content)
        call == AIMessage("PersonalAssistantSessionToolCall", <<>>)
    IN [s EXCEPT !.uuids = @ + 1,
                 !.messages = Append(@, [call EXCEPT !.tool_calls =
                     <<ToolCall("manage_user_session", extracted_name, s.uuids + 1)>>]),
                 !.active_agent = "personal_assistant",
                 !.branch = "session_upsert"]

\* pa_name_provided that passes the content on without strip().
pa_name_provided_unstripped(s) ==
    LET extracted_name == last_message(s).content
        call == AIMessage("PersonalAssistantSessionToolCall", <<>>)
    IN [s EXCEPT !.session_state = SESSION_STATE_CHECKING,
                 !.uuids = @ + 1,
                 !.messages = Append(@, [call EXCEPT !.tool_calls =
                     <<ToolCall("manage_user_session", extracted_name, s.uuids + 1)>>]),
                 !.active_agent = "personal_assistant",
                 !.branch = "session_upsert"]

\* C. The user provided a name (graph.py:280-297).
pa_name_provided(s) ==
    LET extracted_name == strip(last_message(s).content)
        call == AIMessage("PersonalAssistantSessionToolCall", <<>>)
    IN [s EXCEPT !.session_state = SESSION_STATE_CHECKING,
                 !.uuids = @ + 1,
                 !.messages = Append(@, [call EXCEPT !.tool_calls =
                     <<ToolCall("manage_user_session", extracted_name, s.uuids + 1)>>]),
                 !.active_agent = "personal_assistant",
                 !.branch = "session_upsert"]

\* The agent names the routing prompt asks for (graph.py:308-312).
FEATURES_AGENT == <<"F","E","A","T","U","R","E","S","_","A","G","E","N","T">>
DEEP_RESEARCH == <<"D","E","E","P","_","R","E","S","E","A","R","C","H">>
WEB_SEARCH == <<"W","E","B","_","S","E","A","R","C","H">>
PERSONAL_ASSISTANT == <<"P","E","R","S","O","N","A","L","_","A","S","S","I","S","T","A","N","T">>

\* routing_response.content.strip().upper() (graph.py:327).
routing_decision(content) == upper(strip(content))

\* routing_target with the chain tested in the opposite order.
routing_target_reversed(decision) ==
    IF contains(decision, WEB_SEARCH) THEN "web_search_agent"
    ELSE IF contains(decision, DEEP_RESEARCH) THEN "deep_research_agent"
    ELSE IF contains(decision, FEATURES_AGENT) THEN "features_agent"
    ELSE "personal_assistant_agent"

\* routing_target whose default is the web search agent.
routing_target_default_search(decision) ==
    IF contains(decision, FEATURES_AGENT) THEN "features_agent"
    ELSE IF contains(decision, DEEP_RESEARCH) THEN "deep_research_agent"
    ELSE IF contains(decision, PERSONAL_ASSISTANT) THEN "personal_assistant_agent"
    ELSE "web_search_agent"

\* The if/elif chain over the decision (graph.py:343-362): the node to run.
routing_target(decision) ==
    IF contains(decision, FEATURES_AGENT) THEN "features_agent"
    ELSE IF contains(decision, DEEP_RESEARCH) THEN "deep_research_agent"
    ELSE IF contains(decision, WEB_SEARCH) THEN "web_search_agent"
    ELSE "personal_assistant_agent"

\* context_note without the is_context flag.
context_note_unflagged(s, user_request) ==
    AIMessage("PersonalAssistant_ContextNote",
              <<"\n", " ", "User:", " ">> \o current_user_name(s)
              \o <<"\n", " ", "Request:", " ">> \o user_request
              \o <<"\n", " ", "Routing Reason:", " ", "capabilities", "\n", " ">>)

\* The context note built for a handoff (graph.py:331-340).
context_note(s, user_request) ==
    [AIMessage("PersonalAssistant_ContextNote",
               <<"\n", " ", "User:", " ">> \o current_user_name(s)
               \o <<"\n", " ", "Request:", " ">> \o user_request
               \o <<"\n", " ", "Routing Reason:", " ", "capabilities", "\n", " ">>)
        EXCEPT !.is_context = TRUE]

\* pa_direct that stays the active agent after answering its tool result.
pa_direct_stays_active(s, response_calls, branch) ==
    LET last == last_message(s)
        calls == WithIds(response_calls, s.uuids)
    IN IF last.type = "tool" /\ s.active_agent = "personal_assistant"
       THEN [s EXCEPT !.messages = Append(@,
                          [AIMessage("PersonalAssistant", <<"reply">>) EXCEPT
                              !.status = "direct_handling_tool_response",
                              !.tool_calls = calls]),
                      !.uuids = @ + Len(calls),
                      !.next = "__end__",
                      !.branch = "direct_tool_response"]
       ELSE IF s.routing_reason = "direct_handling" /\ last.type = "human"
       THEN IF response_calls = <<>>
            THEN [s EXCEPT !.messages = Append(@,
                               [AIMessage("PersonalAssistant", <<"reply">>) EXCEPT
                                   !.status = "direct_handling"]),
                           !.active_agent = None,
                           !.next = "__end__",
                           !.branch = branch]
            ELSE [s EXCEPT !.messages = Append(@,
                               [AIMessage("PersonalAssistant", <<"reply">>) EXCEPT
                                   !.status = "direct_handling",
                                   !.tool_calls = calls]),
                           !.uuids = @ + Len(calls),
                           !.active_agent = "personal_assistant",
                           !.branch = branch]
       ELSE [s EXCEPT !.next = "__end__", !.branch = "fallback"]

\* Direct handling (graph.py:364-416); response_calls are the tool calls of
\* the model's reply (none: a final reply).
pa_direct(s, response_calls, branch) ==
    LET last == last_message(s)
        calls == WithIds(response_calls, s.uuids)
    IN IF last.type = "tool" /\ s.active_agent = "personal_assistant"
       THEN [s EXCEPT !.messages = Append(@,
                          [AIMessage("PersonalAssistant", <<"reply">>) EXCEPT
                              !.status = "direct_handling_tool_response",
                              !.tool_calls = calls]),
                      !.uuids = @ + Len(calls),
                      !.active_agent = None,
                      !.next = "__end__",
                      !.branch = "direct_tool_response"]
       ELSE IF s.routing_reason = "direct_handling" /\ last.type = "human"
       THEN IF response_calls = <<>>
            THEN [s EXCEPT !.messages = Append(@,
                               [AIMessage("PersonalAssistant", <<"reply">>) EXCEPT
                                   !.status = "direct_handling"]),
                           !.active_agent = None,
                           !.next = "__end__",
                           !.branch = branch]
            ELSE [s EXCEPT !.messages = Append(@,
                               [AIMessage("PersonalAssistant", <<"reply">>) EXCEPT
                                   !.status = "direct_handling",
                                   !.tool_calls = calls]),
                           !.uuids = @ + Len(calls),
                           !.active_agent = "personal_assistant",
                           !.branch = branch]
       ELSE [s EXCEPT !.next = "__end__", !.branch = "fallback"]

\* Routing of a new human message (graph.py:300-362), falling through to
\* direct handling when no specialist label matches.
pa_route(s, classifier_content, response_calls) ==
    LET user_request == last_message(s).content
        decision == routing_decision(classifier_content)
        target == routing_target(decision)
        note == context_note(s, user_request)
        s1 == [s EXCEPT !.output = classifier_content, !.target = target]
    IN IF target = "features_agent"
       THEN [s1 EXCEPT !.routing_reason = "feature_planning_needed",
                       !.active_agent = "features_agent",
                       !.messages = Append(@, note),
                       !.next = "features_agent",
                       !.branch = "route_specialist"]
       ELSE IF target = "deep_research_agent"
       THEN [s1 EXCEPT !.routing_reason = "research_needed",
                       !.active_agent = "deep_research",
                       !.messages = Append(@, note),
                       !.next = "deep_research_agent",
                       !.branch = "route_specialist"]
       ELSE IF target = "web_search_agent"
       THEN [s1 EXCEPT !.routing_reason = "web_search_needed",
                       !.active_agent = "web_search",
                       !.messages = Append(@, note),
                       !.next = "web_search_agent",
                       !.branch = "route_specialist"]
       ELSE pa_direct([s1 EXCEPT !.routing_reason = "direct_handling"],
                      response_calls, "route_direct")

\* personal_assistant_agent (graph.py:64-416).
personal_assistant_agent(s, classifier_content, response_calls) ==
    LET last == last_message(s)
    IN IF last.type = "ai" /\ last.status = "results_obtained"
          /\ last.name = "WebSearchAgent"
       THEN pa_present_search(s)
       ELSE IF last.type = "ai" /\ last.status = "results_obtained"
               /\ last.name \in {"FeaturesAgent", "DeepResearch"}
       THEN pa_present_specialist(s)
       ELSE IF s.first_message /\ ~Truthy(s.user_name)
       THEN pa_new_user_check(s)
       ELSE IF last.type = "tool" /\ s.session_state = SESSION_STATE_CHECKING
       THEN pa_session_result(s)
       ELSE IF last.type = "human" /\ s.session_state = SESSION_STATE_WAITING_FOR_NAME
       THEN pa_name_provided(s)
       ELSE IF last.type = "human" /\ Truthy(s.user_name)
       THEN pa_route(s, classifier_content, response_calls)
       ELSE pa_direct(s, response_calls, "direct")

\* route_pa_output (graph.py:668-702): the node to run next and state.next
\* after the edge consumed it.
route_pa_output(s) ==
    LET last == last_message(s)
    IN IF last.type = "ai" /\ last.tool_calls # <<>>
       THEN [to |-> "tools", next |-> s.next]
       ELSE IF s.next \in {"features_agent", "deep_research_agent", "web_search_agent",
                           "personal_assistant_agent", "__end__"}
       THEN [to |-> s.next, next |-> None]
       ELSE [to |-> "__end__", next |-> s.next]

\* route_specialist_output (graph.py:718-732).
route_specialist_output(s) ==
    LET last == last_message(s)
    IN IF last.type = "ai" /\ last.tool_calls # <<>>
       THEN "tools"
       ELSE "personal_assistant_agent"

\* route_tools_output with the two specialist node names confused.
route_tools_output_confused(agent) ==
    IF agent = "personal_assistant" THEN "personal_assistant_agent"
    ELSE IF agent = "features_agent" THEN "features_agent"
    ELSE IF agent = "deep_research" THEN "features_agent"
    ELSE IF agent = "web_search" THEN "web_search_agent"
    ELSE "personal_assistant_agent"

\* route_tools_output whose fallback re-enters the last specialist node.
route_tools_output_no_fallback(agent) ==
    IF agent = "personal_assistant" THEN "personal_assistant_agent"
    ELSE IF agent = "features_agent" THEN "features_agent"
    ELSE IF agent = "deep_research" THEN "deep_research_agent"
    ELSE "web_search_agent"

\* route_tools_output (graph.py:741-777).
route_tools_output(agent) ==
    IF agent = "personal_assistant" THEN "personal_assistant_agent"
    ELSE IF agent = "features_agent" THEN "features_agent"
    ELSE IF agent = "deep_research" THEN "deep_research_agent"
    ELSE IF agent = "web_search" THEN "web_search_agent"
    ELSE "personal_assistant_agent"

\* The history a specialist passes to its model (graph.py:430-439, 492-500):
\* every user message, every tool result while active_agent is this agent,
\* every context note; `agent` is the value active_agent is compared with.
agent_messages(s, agent) ==
    SelectSeq(s.messages,
              LAMBDA msg : \/ msg.type = "human"
                           \/ (msg.type = "tool" /\ s.active_agent = agent)
                           \/ msg.name = "PersonalAssistant_ContextNote")

\* features_agent (graph.py:419-478); response_calls are the tool calls of
\* the model's reply.
features_agent(s, response_calls) ==
    LET response == [AIMessage("FeaturesAgent", <<"reply">>) EXCEPT
                        !.status = "specialist_active",
                        !.tool_calls = WithIds(response_calls, s.uuids)]
    IN IF response_calls = <<>>
       THEN [s EXCEPT !.messages = Append(@, response),
                      !.feature_requests = @ + 1,
                      !.active_agent = None,
                      !.next = "personal_assistant_agent",
                      !.branch = "specialist_final"]
       ELSE [s EXCEPT !.messages = Append(@, response),
                      !.uuids = @ + Len(response_calls),
                      !.branch = "specialist_tools"]

\* deep_research_agent whose final reply takes the place of the last message.
deep_research_agent_replaces(s, response_calls) ==
    LET response == [AIMessage("DeepResearch", <<"reply">>) EXCEPT
                        !.status = "specialist_active",
                        !.tool_calls = WithIds(response_calls, s.uuids)]
        final_response == AIMessage("DeepResearch", <<"reply">>)
    IN IF response_calls = <<>>
       THEN [s EXCEPT !.messages = [@ EXCEPT ![Len(@)] = final_response],
                      !.active_agent = None,
                      !.next = "personal_assistant_agent",
                      !.branch = "specialist_final"]
       ELSE [s EXCEPT !.messages = Append(@, response),
                      !.uuids = @ + Len(response_calls),
                      !.branch = "specialist_tools"]

\* deep_research_agent (graph.py:481-533).
deep_research_agent(s, response_calls) ==
    LET response == [AIMessage("DeepResearch", <<"reply">>) EXCEPT
                        !.status = "specialist_active",
                        !.tool_calls = WithIds(response_calls, s.uuids)]
        final_response == AIMessage("DeepResearch", <<"reply">>)
    IN IF response_calls = <<>>
       THEN [s EXCEPT !.messages = Append(@, final_response),
                      !.active_agent = None,
                      !.next = "personal_assistant_agent",
                      !.branch = "specialist_final"]
       ELSE [s EXCEPT !.messages = Append(@, response),
                      !.uuids = @ + Len(response_calls),
                      !.branch = "specialist_tools"]

\* str.split('\n')
RECURSIVE split_lines(_)
split_lines(t) ==
    IF \E i \in 1..Len(t) : t[i] = "\n"
    THEN LET i == CHOOSE k \in 1..Len(t) : t[k] = "\n" /\ \A j \in 1..(k - 1) : t[j] # "\n"
         IN <<SubSeq(t, 1, i - 1)>> \o split_lines(SubSeq(t, i + 1, Len(t)))
    ELSE <<t>>

NotRequestLabel(tok) == tok # "Request:"

\* The query the web search agent derives (graph.py:551-566).
search_query(messages) ==
    LET IsNote(i) == messages[i].name = "PersonalAssistant_ContextNote"
        IsHuman(i) == messages[i].type = "human"
        notes == {i \in 1..Len(messages) : IsNote(i)}
        humans == {i \in 1..Len(messages) : IsHuman(i)}
        note_content ==
            messages[CHOOSE i \in notes : \A j \in notes : j <= i].content
        request_line ==
            SelectSeq(split_lines(note_content), LAMBDA l : contains(l, <<"Request:">>))
        from_note ==
            IF notes # {} /\ contains(note_content, <<"Request:">>) /\ request_line # <<>>
            THEN strip(SelectSeq(request_line[1], NotRequestLabel))
            ELSE NoneText
        original_user_request ==
            IF Truthy(from_note) THEN from_note
            ELSE IF humans # {}
            THEN messages[CHOOSE i \in humans : \A j \in humans : j <= i].content
            ELSE NoneText
    IN IF Truthy(original_user_request) THEN original_user_request
       ELSE <<"general information">>

\* json.loads of a search tool result in the web search agent
\* (graph.py:577-585): the value parsed, or the parser-error entry.
parse_search_results(payload) ==
    IF payload.kind = "error_text" THEN "parser_error_list" ELSE payload.kind

\* web_search_agent that answers a tool result with another search request.
web_search_agent_searches_again(s) ==
    LET query == search_query(s.messages)
        search_request ==
            [AIMessage("WebSearchAgent", <<"I'll search">>)
                EXCEPT !.status = "initiating_search",
                       !.original_query = query,
                       !.tool_calls = <<ToolCall("search", query, s.uuids + 1)>>]
    IN [s EXCEPT !.messages = Append(@, search_request),
                 !.uuids = @ + 1,
                 !.active_agent = "web_search",
                 !.branch = "specialist_tools"]

\* web_search_agent that records its node name in active_agent.
web_search_agent_names_node(s) ==
    LET query == search_query(s.messages)
        last == last_message(s)
    IN IF last.type = "tool" /\ s.active_agent = "web_search_agent"
       THEN LET result_carrier_message ==
                    [AIMessage("WebSearchAgent", <<"Search results obtained for query: ">> \o query)
                        EXCEPT !.status = "results_obtained",
                               !.original_query = query,
                               !.search_results = parse_search_results(last.payload)]
            IN [s EXCEPT !.messages = Append(@, result_carrier_message),
                         !.active_agent = None,
                         !.next = "personal_assistant_agent",
                         !.branch = "specialist_final"]
       ELSE LET search_request ==
                    [AIMessage("WebSearchAgent", <<"I'll search">>)
                        EXCEPT !.status = "initiating_search",
                               !.original_query = query,
                               !.tool_calls = <<ToolCall("search", query, s.uuids + 1)>>]
            IN [s EXCEPT !.messages = Append(@, search_request),
                         !.uuids = @ + 1,
                         !.active_agent = "web_search_agent",
                         !.branch = "specialist_tools"]

\* web_search_agent (graph.py:536-641).
web_search_agent(s) ==
    LET query == search_query(s.messages)
        last == last_message(s)
    IN IF last.type = "tool" /\ s.active_agent = "web_search"
       THEN LET result_carrier_message ==
                    [AIMessage("WebSearchAgent", <<"Search results obtained for query: ">> \o query)
                        EXCEPT !.status = "results_obtained",
                               !.original_query = query,
                               !.search_results = parse_search_results(last.payload)]
            IN [s EXCEPT !.messages = Append(@, result_carrier_message),
                         !.active_agent = None,
                         !.next = "personal_assistant_agent",
                         !.branch = "specialist_final"]
       ELSE LET search_request ==
                    [AIMessage("WebSearchAgent", <<"I'll search">>)
                        EXCEPT !.status = "initiating_search",
                               !.original_query = query,
                               !.tool_calls = <<ToolCall("search", query, s.uuids + 1)>>]
            IN [s EXCEPT !.messages = Append(@, search_request),
                         !.uuids = @ + 1,
                         !.active_agent = "web_search",
                         !.branch = "specialist_tools"]

\* ------------------------------------------------------ state and inputs
VARIABLES
    messages,            \* State.messages
    next,                \* State.next
    active_agent,        \* State.active_agent
    feature_requests,    \* len(State.feature_requests)
    user_name,           \* State.user_name
    user_uid,            \* State.user_uid
    routing_reason,      \* State.routing_reason
    specialist_results,  \* State.specialist_results
    original_question,   \* State.original_question
    awaiting_approval,   \* state["awaiting_approval"]: the calls put before the human
    first_message,       \* State.first_message
    session_state,       \* State.session_state
    store,               \* tools._simulated_session_store[_SESSION_KEY]
    uuids,               \* number of uuid4() values drawn so far
    pc,                  \* the node the graph runs next; "idle" between turns
    steps,               \* supersteps taken for the current user message
    raised,              \* the exception that ended the invocation, if any
    branch,              \* branch taken by the node that ran last
    classifier_output,   \* routing_response.content of that node, if it classified
    target,              \* routing target chosen by that node, if it classified
    thread_id,           \* config["configurable"]["thread_id"] of the invocation
    checkpoint,          \* what save_thread_state stored last, per thread id
    queries,             \* the calls of process_user_query: position and local state
    registry,            \* a ToolRegistry: tools_by_name and agent_tool_sets
    memory_store,        \* MemoryManager._memory_store, in insertion order
    search_call          \* the last search_memory call and what it returned

vars == <<original_question, awaiting_approval,
          messages, next, active_agent, feature_requests, user_name, user_uid,
          routing_reason, specialist_results, first_message, session_state,
          store, uuids, pc, steps, raised, branch, classifier_output, target,
          thread_id, checkpoint, queries, registry, memory_store, search_call>>

\* The state of tool_registry.py and memory_manager.py, which the graph and
\* process_user_query leave alone.
component_vars == <<registry, memory_store, search_call>>

\* The conversation threads of one process (main.py:140, 161).
Threads == {"thread_1", "thread_2"}

\* ToolRegistry() (tool_registry.py:26-29): no tool, no agent type.
AgentTypes == {"router", "personal_assistant", "research", "website", "feature_request"}
ToolRegistry == [tools_by_name |-> {}, agent_tool_sets |-> [a \in AgentTypes |-> <<>>]]

\* MemoryManager before any search_memory call.
NoSearch ==
    [called |-> FALSE, agent_type |-> "", user_id |-> <<>>, query |-> <<>>,
     filter_metadata |-> {}, limit |-> 0, results |-> <<>>]

\* The checkpointer before any save: get_thread_state finds nothing.
NoCheckpoint == [t \in Threads |-> [saved |-> FALSE, messages |-> <<>>]]

\* The calls of process_user_query a process receives, none of them started.
QueryIds == 1..MaxQueries
NoQueries ==
    [q \in QueryIds |-> [pc |-> "waiting", thread_id |-> "thread_1", messages |-> <<>>]]

AgentNodes == {"personal_assistant_agent", "features_agent", "deep_research_agent",
               "web_search_agent"}
Nodes == AgentNodes \cup {"tools"}

\* What the user may type: a name with a leading blank, or only a blank.
UserContents == { <<" ", "Alex">>, <<" ">> }

\* What the routing call may answer: nothing, a label in lower case, a label
\* in mixed case with a trailing newline, two labels at once.
RoutingReplies ==
    { <<>>, <<"f","e","a","t","u","r","e","s","_","a","g","e","n","t">>,
      <<"W","e","b","_","S","e","a","r","c","h","\n">>,
      WEB_SEARCH \o <<" ">> \o DEEP_RESEARCH }

\* The tool calls a tool-bound model may put in one reply: a search, a
\* session upsert, a call to a tool that does not exist.
SearchCall == [name |-> "search", args |-> <<"q">>]
UpsertCall == [name |-> "manage_user_session", args |-> <<"Bob">>]
BadCall == [name |-> "no_such_tool", args |-> NoneText]

\* The replies of a tool-bound model: no tool call (a final reply), one tool
\* call, or several tool calls in one message.
ModelReplies == { <<>>, <<SearchCall>>, <<UpsertCall>>, <<SearchCall, BadCall>> }

\* The State record a node receives.
State ==
    [messages |-> messages, next |-> next, active_agent |-> active_agent,
     feature_requests |-> feature_requests, user_name |-> user_name,
     user_uid |-> user_uid, routing_reason |-> routing_reason,
     specialist_results |-> specialist_results, first_message |-> first_message,
     original_question |-> original_question, awaiting_approval |-> awaiting_approval,
     session_state |-> session_state, uuids |-> uuids,
     branch |-> "none", output |-> NoneText, target |-> "none", raised |-> ""]

\* The identity another conversation of the same process may have left in the
\* store, which has one fixed key for all threads (tools.py:25-26).
EarlierIdentity == [user_name |-> <<"Eve">>, user_uid |-> 1]

Init ==
    /\ messages = <<>>
    /\ next = None
    /\ active_agent = None
    /\ feature_requests = 0
    /\ user_name = NoneText
    /\ user_uid = 0
    /\ routing_reason = None
    /\ specialist_results = FALSE
    /\ first_message = TRUE
    /\ original_question = NoneText
    /\ awaiting_approval = <<>>
    /\ session_state = None
    /\ store \in {EmptyStore, EarlierIdentity}
    /\ uuids = (IF store = EmptyStore THEN 0 ELSE 1)
    /\ pc = "idle"
    /\ steps = 0
    /\ raised = ""
    /\ branch = "none"
    /\ classifier_output = NoneText
    /\ target = "none"
    /\ thread_id = "thread_1"
    /\ checkpoint = NoCheckpoint
    /\ queries = NoQueries
    /\ registry = ToolRegistry
    /\ memory_store = <<>>
    /\ search_call = NoSearch

\* The node returned r and the edge after it chose node `to`.
Continue(r, to) ==
    /\ messages' = r.messages
    /\ next' = r.next
    /\ active_agent' = r.active_agent
    /\ feature_requests' = r.feature_requests
    /\ user_name' = r.user_name
    /\ user_uid' = r.user_uid
    /\ routing_reason' = r.routing_reason
    /\ specialist_results' = r.specialist_results
    /\ first_message' = r.first_message
    /\ original_question' = r.original_question
    /\ awaiting_approval' = r.awaiting_approval
    /\ session_state' = r.session_state
    /\ uuids' = r.uuids
    /\ branch' = r.branch
    /\ classifier_output' = r.output
    /\ target' = r.target
    /\ pc' = IF to = "__end__" THEN "idle" ELSE to
    /\ steps' = steps + 1
    /\ UNCHANGED <<component_vars, store, raised, thread_id, checkpoint, queries>>

\* The node raised: the invocation ends with the exception.
Raise(exception, at) ==
    /\ pc' = "error"
    /\ raised' = exception
    /\ branch' = at
    /\ classifier_output' = NoneText
    /\ target' = "none"
    /\ UNCHANGED <<component_vars, original_question, awaiting_approval,
                   messages, next, active_agent, feature_requests, user_name, user_uid,
                   routing_reason, specialist_results, first_message, session_state,
                   store, uuids, steps, thread_id, checkpoint, queries>>

NumHuman == Len(SelectSeq(messages, LAMBDA m : m.type = "human"))

\* A new user message starts a turn at the entry point (graph.py:663).
UserMessage ==
    /\ pc = "idle"
    /\ NumHuman < MaxUserMsgs
    /\ \E content \in UserContents :
           messages' = Append(messages, HumanMessage(content))
    /\ pc' = "personal_assistant_agent"
    /\ steps' = 0
    /\ branch' = "none"
    /\ classifier_output' = NoneText
    /\ target' = "none"
    /\ UNCHANGED <<component_vars, original_question, awaiting_approval,
                   next, active_agent, feature_requests, user_name, user_uid,
                   routing_reason, specialist_results, first_message, session_state,
                   store, uuids, raised, thread_id, checkpoint, queries>>

\* The personal assistant node and the edge after it, the two model calls
\* answering from the sets given.
PersonalAssistantOver(replies, calls) ==
    /\ pc = "personal_assistant_agent"
    /\ steps < RecursionLimit
    /\ \E classifier_content \in replies, response_calls \in calls :
           LET r == personal_assistant_agent(State, classifier_content, response_calls)
               e == route_pa_output(r)
           IN IF r.raised # "" THEN Raise(r.raised, r.branch)
              ELSE Continue([r EXCEPT !.next = e.next], e.to)

PersonalAssistant == PersonalAssistantOver(RoutingReplies, ModelReplies)

Features ==
    /\ pc = "features_agent"
    /\ steps < RecursionLimit
    /\ \E response_calls \in ModelReplies :
           LET r == features_agent(State, response_calls)
           IN Continue(r, route_specialist_output(r))

DeepResearch ==
    /\ pc = "deep_research_agent"
    /\ steps < RecursionLimit
    /\ \E response_calls \in ModelReplies :
           LET r == deep_research_agent(State, response_calls)
           IN Continue(r, route_specialist_output(r))

WebSearch ==
    /\ pc = "web_search_agent"
    /\ steps < RecursionLimit
    /\ LET r == web_search_agent(State)
       IN Continue(r, route_specialist_output(r))

\* The tools node executing the calls given (graph.py:656-660) and the edge
\* after it.
ToolsOver(calls) ==
    /\ pc = "tools"
    /\ steps < RecursionLimit
    /\ \E search_out \in [1..Len(calls) -> SearchPayloads] :
           LET r == run_tools(calls, store, uuids, search_out)
           IN /\ messages' = messages \o r.msgs
              /\ store' = r.store
              /\ uuids' = r.uuids
    /\ pc' = route_tools_output(active_agent)
    /\ steps' = steps + 1
    /\ branch' = "tools"
    /\ classifier_output' = NoneText
    /\ target' = "none"
    /\ UNCHANGED <<component_vars, original_question, awaiting_approval,
                   next, active_agent, feature_requests, user_name, user_uid,
                   routing_reason, specialist_results, first_message, session_state,
                   raised, thread_id, checkpoint, queries>>

\* The tools node of graph.py runs only after a message with tool calls.
Tools == ToolsOver(last_message(State).tool_calls)

\* The step count reached the recursion limit with a node still to run:
\* the graph raises (state.py:54-60).
RecursionError ==
    /\ pc \in Nodes \cup {"human_approval"}
    /\ steps >= RecursionLimit
    /\ Raise("GraphRecursionError", "none")

Next ==
    \/ UserMessage
    \/ PersonalAssistant
    \/ Features
    \/ DeepResearch
    \/ WebSearch
    \/ Tools
    \/ RecursionError

Spec == Init /\ [][Next]_vars

TypeOK ==
    /\ pc \in Nodes \cup {"idle", "error", "classify", "classified", "session",
                         "human_approval", "registry", "registered", "memory"}
    /\ thread_id \in Threads
    /\ \A q \in QueryIds : queries[q].pc \in {"waiting", "invoking", "done"}
    /\ \A t \in Threads : checkpoint[t].saved \in BOOLEAN
    /\ steps \in 0..(IF pc = "session" THEN MaxCalls ELSE RecursionLimit)
    /\ Len(memory_store) <= MaxMemories
    /\ active_agent \in {None, "personal_assistant", "features_agent", "deep_research", "web_search"}
    /\ session_state \in {None, SESSION_STATE_CHECKING, SESSION_STATE_WAITING_FOR_NAME}

\* ---------------------------------------- the classifier, input by input
lower_char(c) ==
    IF \E i \in 1..Len(UpperLetters) : UpperLetters[i] = c
    THEN LowerLetters[CHOOSE i \in 1..Len(UpperLetters) : UpperLetters[i] = c]
    ELSE c

lower(t) == [i \in 1..Len(t) |-> lower_char(t[i])]

\* Pieces of a classifier reply: the labels in both cases, a label cut
\* short, and text that is no label.
ClassifierParts ==
    { FEATURES_AGENT, lower(FEATURES_AGENT), DEEP_RESEARCH, lower(DEEP_RESEARCH),
      WEB_SEARCH, lower(WEB_SEARCH), PERSONAL_ASSISTANT,
      <<"F","e","a","t","u","r","e","s">>, <<"R","E","S","E","A","R","C","H">>,
      <<" ">>, <<"\n">> }

RECURSIVE Concats(_)
Concats(n) ==
    IF n = 0 THEN { <<>> }
    ELSE Concats(n - 1) \cup { a \o b : a \in Concats(n - 1), b \in ClassifierParts }

ClassifierOutputs == Concats(MaxParts)

InitRouting ==
    /\ messages = <<>>
    /\ next = None
    /\ active_agent = None
    /\ feature_requests = 0
    /\ user_name = NoneText
    /\ user_uid = 0
    /\ routing_reason = None
    /\ specialist_results = FALSE
    /\ first_message = TRUE
    /\ original_question = NoneText
    /\ awaiting_approval = <<>>
    /\ session_state = None
    /\ store = EmptyStore
    /\ uuids = 0
    /\ pc = "classify"
    /\ steps = 0
    /\ raised = ""
    /\ branch = "none"
    /\ classifier_output \in ClassifierOutputs
    /\ target = "none"
    /\ thread_id = "thread_1"
    /\ checkpoint = NoCheckpoint
    /\ queries = NoQueries
    /\ registry = ToolRegistry
    /\ memory_store = <<>>
    /\ search_call = NoSearch

\* The decision of graph.py:327-362 applied to one classifier reply.
Classify ==
    /\ pc = "classify"
    /\ target' = routing_target(routing_decision(classifier_output))
    /\ pc' = "classified"
    /\ UNCHANGED <<component_vars, original_question, awaiting_approval,
                   messages, next, active_agent, feature_requests, user_name, user_uid,
                   routing_reason, specialist_results, first_message, session_state,
                   store, uuids, steps, raised, branch, classifier_output, thread_id, checkpoint, queries>>

NextRouting == Classify

SpecRouting == InitRouting /\ [][NextRouting]_vars

\* ------------------------------------ a resolved thread, turn by turn
\* The thread after its first message found the stored identity: the record
\* the graph leaves when it ran on one user message with EarlierIdentity in
\* the store (personal assistant, tools node, personal assistant).
Bootstrapped ==
    LET s0 == [messages |-> <<HumanMessage(<<" ">>)>>, next |-> None,
               active_agent |-> None, feature_requests |-> 0,
               user_name |-> NoneText, user_uid |-> 0, routing_reason |-> None,
               specialist_results |-> FALSE, first_message |-> TRUE,
               original_question |-> NoneText, awaiting_approval |-> <<>>,
               session_state |-> None, uuids |-> 1,
               branch |-> "none", output |-> NoneText, target |-> "none", raised |-> ""]
        s1 == personal_assistant_agent(s0, <<>>, <<>>)
        t == run_tools(last_message(s1).tool_calls, EarlierIdentity, s1.uuids, <<>>)
        s2 == [s1 EXCEPT !.messages = @ \o t.msgs, !.uuids = t.uuids]
        s3 == personal_assistant_agent(s2, <<>>, <<>>)
    IN [s3 EXCEPT !.next = route_pa_output(s3).next]

InitHandoff ==
    /\ messages = Bootstrapped.messages
    /\ next = Bootstrapped.next
    /\ active_agent = Bootstrapped.active_agent
    /\ feature_requests = Bootstrapped.feature_requests
    /\ user_name = Bootstrapped.user_name
    /\ user_uid = Bootstrapped.user_uid
    /\ routing_reason = Bootstrapped.routing_reason
    /\ specialist_results = Bootstrapped.specialist_results
    /\ first_message = Bootstrapped.first_message
    /\ original_question = Bootstrapped.original_question
    /\ awaiting_approval = <<>>
    /\ session_state = Bootstrapped.session_state
    /\ store = EarlierIdentity
    /\ uuids = Bootstrapped.uuids
    /\ pc = "idle"
    /\ steps = 0
    /\ raised = ""
    /\ branch = Bootstrapped.branch
    /\ classifier_output = NoneText
    /\ target = "none"
    /\ thread_id = "thread_1"
    /\ checkpoint = NoCheckpoint
    /\ queries = NoQueries
    /\ registry = ToolRegistry
    /\ memory_store = <<>>
    /\ search_call = NoSearch

\* What the user asks for on a resolved thread: a request of one line, a
\* request of two lines.
RequestContents == { <<"plan", " ", "it">>, <<"find", "\n", "it">> }

\* A user message on the resolved thread starts the next turn.
UserRequest ==
    /\ pc = "idle"
    /\ NumHuman < 1 + MaxHandoffs
    /\ \E content \in RequestContents :
           messages' = Append(messages, HumanMessage(content))
    /\ pc' = "personal_assistant_agent"
    /\ steps' = 0
    /\ branch' = "none"
    /\ classifier_output' = NoneText
    /\ target' = "none"
    /\ UNCHANGED <<component_vars, original_question, awaiting_approval,
                   next, active_agent, feature_requests, user_name, user_uid,
                   routing_reason, specialist_results, first_message, session_state,
                   store, uuids, raised, thread_id, checkpoint, queries>>

NextHandoff ==
    \/ UserRequest
    \/ PersonalAssistant
    \/ Features
    \/ DeepResearch
    \/ WebSearch
    \/ Tools
    \/ RecursionError

SpecHandoff == InitHandoff /\ [][NextHandoff]_vars

\* ------------------------------------------- the graph over failing tools
\* The tools node when a tool may fail (graph.py:656-660) and the edge after
\* it.
ToolsFailing ==
    /\ pc = "tools"
    /\ steps < RecursionLimit
    /\ LET calls == last_message(State).tool_calls
       IN \E search_out \in [1..Len(calls) -> SearchPayloads],
             outcome \in [1..Len(calls) -> ExecutorOutcomes] :
              LET r == run_tools_failing(calls, store, uuids, search_out, outcome)
              IN /\ messages' = messages \o r.msgs
                 /\ store' = r.store
                 /\ uuids' = r.uuids
    /\ pc' = route_tools_output(active_agent)
    /\ steps' = steps + 1
    /\ branch' = "tools"
    /\ classifier_output' = NoneText
    /\ target' = "none"
    /\ UNCHANGED <<component_vars, original_question, awaiting_approval,
                   next, active_agent, feature_requests, user_name, user_uid,
                   routing_reason, specialist_results, first_message, session_state,
                   raised, thread_id, checkpoint, queries>>

\* The personal assistant whose classifier keeps the request or hands it to
\* the web search agent, and whose own replies carry no tool call.
SearchReplies == { <<>>, <<"W","e","b","_","S","e","a","r","c","h","\n">> }
PersonalAssistantSearching == PersonalAssistantOver(SearchReplies, { <<>> })

NextToolExecutor ==
    \/ UserMessage
    \/ PersonalAssistantSearching
    \/ WebSearch
    \/ ToolsFailing

SpecToolExecutor == Init /\ [][NextToolExecutor]_vars

\* ------------------------------------- human_loop.py: the approval gate
\* get_default_approval_configuration (human_loop.py:228-241): the tools
\* that need approval, by the value of active_agent.
approval_required_for(agent_type) ==
    IF agent_type = "personal_assistant" THEN {"manage_user_session"}
    ELSE IF agent_type \in {"research", "website", "feature_request"} THEN {"search"}
    ELSE {}

\* The last AIMessage with tool calls (graph position 0: none).
last_request(s) ==
    LET I == {i \in 1..Len(s.messages) :
                 s.messages[i].type = "ai" /\ s.messages[i].tool_calls # <<>>}
    IN IF I = {} THEN NoMsg ELSE s.messages[CHOOSE i \in I : \A j \in I : j <= i]

\* The calls of the last request whose tool needs approval for the active
\* agent (human_loop.py:48-55).
critical_tool_calls(s) ==
    SelectSeq(last_request(s).tool_calls,
              LAMBDA tc : tc.name \in approval_required_for(s.active_agent))

\* needs_approval (human_loop.py:105-129).
needs_approval(s) == critical_tool_calls(s) # <<>>

APPROVE == <<"a","p","p","r","o","v","e">>

\* The text of the approval request (human_loop.py:59-65).
approval_request_content(calls) ==
    <<"Please ">> \o APPROVE \o <<" the following action(s):">>
    \o [i \in 1..(2 * Len(calls)) |->
           IF i % 2 = 1 THEN "\n- " ELSE calls[i \div 2].name]
    \o <<"\nType '">> \o APPROVE
    \o <<"' to proceed, or provide alternative instructions.">>

\* human_approval_node (human_loop.py:36-76): the request is appended as a
\* HumanMessage.
human_approval_node(s) ==
    IF critical_tool_calls(s) # <<>>
    THEN [s EXCEPT !.messages =
                       Append(@, HumanMessage(approval_request_content(critical_tool_calls(s)))),
                   !.awaiting_approval = critical_tool_calls(s),
                   !.branch = "approval_request"]
    ELSE [s EXCEPT !.branch = "approval_none"]

\* process_human_response (human_loop.py:143-170), without the feedback case.
process_human_response(s) ==
    IF s.messages = <<>> THEN "continue"
    ELSE IF s.awaiting_approval # <<>> /\ last_message(s).type = "human"
    THEN IF contains(lower(last_message(s).content), APPROVE)
         THEN "approved" ELSE "reconsider"
    ELSE "continue"

\* The node a value of active_agent names, for the edge back to the agent
\* (human_loop.py:210).
reconsider_target(s) ==
    IF s.active_agent = "personal_assistant" THEN "personal_assistant_agent"
    ELSE s.active_agent

\* The message is an approval request of the gate.
IsApprovalRequest(m) ==
    m.type = "human" /\ Len(m.content) > 1 /\ m.content[1] = "Please "

\* The messages the user wrote.
NumUser ==
    Len(SelectSeq(messages, LAMBDA m : m.type = "human" /\ ~IsApprovalRequest(m)))

\* A new user message starts a turn of the graph with the gate.
UserMessageGated ==
    /\ pc = "idle"
    /\ NumUser < MaxUserMsgs
    /\ \E content \in UserContents :
           messages' = Append(messages, HumanMessage(content))
    /\ pc' = "personal_assistant_agent"
    /\ steps' = 0
    /\ branch' = "none"
    /\ classifier_output' = NoneText
    /\ target' = "none"
    /\ UNCHANGED <<component_vars, original_question, awaiting_approval,
                   next, active_agent, feature_requests, user_name, user_uid,
                   routing_reason, specialist_results, first_message, session_state,
                   store, uuids, raised, thread_id, checkpoint, queries>>

\* The personal assistant node of the graph with the gate: its edge to the
\* tools node goes through human_approval when needs_approval says so
\* (human_loop.py:173-190).
PersonalAssistantGated ==
    /\ pc = "personal_assistant_agent"
    /\ steps < RecursionLimit
    /\ \E classifier_content \in RoutingReplies, response_calls \in ModelReplies :
           LET r == personal_assistant_agent(State, classifier_content, response_calls)
               e == route_pa_output(r)
               to == IF e.to = "tools" /\ needs_approval(r) THEN "human_approval" ELSE e.to
           IN IF r.raised # "" THEN Raise(r.raised, r.branch)
              ELSE Continue([r EXCEPT !.next = e.next], to)

\* The human_approval node and the edge after it (human_loop.py:206-215).
HumanApproval ==
    /\ pc = "human_approval"
    /\ steps < RecursionLimit
    /\ LET r == human_approval_node(State)
           response == process_human_response(r)
       IN Continue(r, IF response = "reconsider" THEN reconsider_target(r) ELSE "tools")

\* The tools node behind the gate. After an approval request the last
\* message is a HumanMessage: a ToolNode that reads the latest AIMessage
\* executes the calls of the pending request, a ToolNode that reads
\* messages[-1] raises ValueError.
ToolsGated ==
    IF last_message(State).type = "ai"
    THEN ToolsOver(last_message(State).tool_calls)
    ELSE \/ ToolsOver(last_request(State).tool_calls)
         \/ /\ pc = "tools"
            /\ steps < RecursionLimit
            /\ Raise("ValueError", "tools")

NextApproval ==
    \/ UserMessageGated
    \/ PersonalAssistantGated
    \/ HumanApproval
    \/ Features
    \/ DeepResearch
    \/ WebSearch
    \/ ToolsGated
    \/ RecursionError

SpecApproval == Init /\ [][NextApproval]_vars

\* --------------------------------------- main.py: process_user_query
\* user_input of call q (the calls carry different texts).
user_input(q) == [i \in 1..q |-> "q"]

\* memory_manager.get_thread_state(thread_id), or the state of
\* create_memory_for_agent("router") when it finds nothing (main.py:134-138).
get_thread_state(t) == IF checkpoint[t].saved THEN checkpoint[t].messages ELSE <<>>

\* process_user_query up to its await (main.py:134-147): the call loads the
\* thread's state, appends the user message and starts the invocation.
process_user_query_load ==
    /\ \E q \in QueryIds, t \in Threads :
           /\ queries[q].pc = "waiting"
           /\ queries' = [queries EXCEPT ![q] =
                  [pc |-> "invoking", thread_id |-> t,
                   messages |-> Append(get_thread_state(t), HumanMessage(user_input(q)))]]
    /\ UNCHANGED <<component_vars, original_question, awaiting_approval,
                   messages, next, active_agent, feature_requests, user_name, user_uid,
                   routing_reason, specialist_results, first_message, session_state,
                   store, uuids, pc, steps, raised, branch, classifier_output, target,
                   thread_id, checkpoint>>

\* process_user_query from the return of ainvoke (main.py:147-152): the
\* result extends the state the call passed in by the turn's reply, and
\* save_thread_state stores it under the thread id.
process_user_query_save ==
    /\ \E q \in QueryIds :
           /\ queries[q].pc = "invoking"
           /\ LET result == Append(queries[q].messages,
                                   AIMessage("PersonalAssistant", user_input(q)))
              IN /\ checkpoint' = [checkpoint EXCEPT ![queries[q].thread_id] =
                                       [saved |-> TRUE, messages |-> result]]
                 /\ queries' = [queries EXCEPT ![q].pc = "done", ![q].messages = result]
    /\ UNCHANGED <<component_vars, original_question, awaiting_approval,
                   messages, next, active_agent, feature_requests, user_name, user_uid,
                   routing_reason, specialist_results, first_message, session_state,
                   store, uuids, pc, steps, raised, branch, classifier_output, target,
                   thread_id>>

InitQuery ==
    /\ messages = <<>>
    /\ next = None
    /\ active_agent = None
    /\ feature_requests = 0
    /\ user_name = NoneText
    /\ user_uid = 0
    /\ routing_reason = None
    /\ specialist_results = FALSE
    /\ first_message = TRUE
    /\ original_question = NoneText
    /\ awaiting_approval = <<>>
    /\ session_state = None
    /\ store = EmptyStore
    /\ uuids = 0
    /\ pc = "idle"
    /\ steps = 0
    /\ raised = ""
    /\ branch = "none"
    /\ classifier_output = NoneText
    /\ target = "none"
    /\ thread_id = "thread_1"
    /\ checkpoint = NoCheckpoint
    /\ queries = NoQueries
    /\ registry = ToolRegistry
    /\ memory_store = <<>>
    /\ search_call = NoSearch

NextQuery ==
    \/ process_user_query_load
    \/ process_user_query_save

SpecQuery == InitQuery /\ [][NextQuery]_vars

\* ------------------------------------------------------ tool_registry.py
\* The variables of the graph and of process_user_query, which the registry
\* and the memory manager leave alone.
program_vars ==
    <<original_question, awaiting_approval, messages, next, active_agent,
      feature_requests, user_name, user_uid, routing_reason, specialist_results,
      first_message, session_state, store, uuids, raised, branch, classifier_output,
      target, thread_id, checkpoint, queries>>

\* ToolRegistry.register_tool (tool_registry.py:30-43); agent_types <<>> is
\* None or the empty list.
RECURSIVE register_tool(_, _, _)
register_tool(reg, tool, agent_types) ==
    LET named == [reg EXCEPT !.tools_by_name = @ \cup {tool}]
    IN IF agent_types = <<>> THEN named
       ELSE register_tool(
                [named EXCEPT !.agent_tool_sets[Head(agent_types)] = Append(@, tool)],
                tool, Tail(agent_types))

\* ToolRegistry.register_tools (tool_registry.py:45-53).
RECURSIVE register_tools(_, _, _)
register_tools(reg, tools, agent_types) ==
    IF tools = <<>> THEN reg
    ELSE register_tools(register_tool(reg, Head(tools), agent_types),
                        Tail(tools), agent_types)

\* ToolRegistry.get_tools_for_agent (tool_registry.py:55-64).
get_tools_for_agent(reg, agent_type) ==
    IF agent_type \in DOMAIN reg.agent_tool_sets
    THEN reg.agent_tool_sets[agent_type] ELSE <<>>

\* create_handoff_tools (handoff.py:220-237), by tool name.
handoff_tools ==
    <<"transfer_to_personal_assistant", "transfer_to_research",
      "transfer_to_website", "transfer_to_feature_request">>

\* create_tool_registry (tool_registry.py:81-134).
create_tool_registry ==
    LET r1 == register_tools(ToolRegistry, <<"search", "manage_user_session">>,
                             <<"router", "personal_assistant", "research", "website",
                               "feature_request">>)
        r2 == register_tools(r1, handoff_tools, <<"router", "personal_assistant">>)
        r3 == register_tools(r2, <<"search">>, <<"research">>)
        r4 == register_tools(r3, <<"search">>, <<"website">>)
        r5 == register_tools(r4, <<"search">>, <<"feature_request">>)
    IN register_tools(r5, <<"search">>, <<"personal_assistant">>)

\* The tools and agent type lists of later registrations.
RegisteredTools == {"search", "manage_user_session", "transfer_to_research"}
AgentTypeLists == { <<>>, <<"research">>, <<"router", "personal_assistant">> }
ToolLists == { <<"search", "manage_user_session">>, <<"transfer_to_research">> }

InitRegistry ==
    /\ messages = <<>>
    /\ next = None
    /\ active_agent = None
    /\ feature_requests = 0
    /\ user_name = NoneText
    /\ user_uid = 0
    /\ routing_reason = None
    /\ specialist_results = FALSE
    /\ first_message = TRUE
    /\ original_question = NoneText
    /\ awaiting_approval = <<>>
    /\ session_state = None
    /\ store = EmptyStore
    /\ uuids = 0
    /\ pc = "registry"
    /\ steps = 0
    /\ raised = ""
    /\ branch = "none"
    /\ classifier_output = NoneText
    /\ target = "none"
    /\ thread_id = "thread_1"
    /\ checkpoint = NoCheckpoint
    /\ queries = NoQueries
    /\ registry = ToolRegistry
    /\ memory_store = <<>>
    /\ search_call = NoSearch

\* TOOL_REGISTRY = create_tool_registry() (tool_registry.py:138).
CreateToolRegistry ==
    /\ pc = "registry"
    /\ pc' = "registered"
    /\ registry' = create_tool_registry
    /\ UNCHANGED <<program_vars, steps, memory_store, search_call>>

\* A later call of register_tool on the registry.
RegisterTool ==
    /\ pc \in {"registry", "registered"}
    /\ steps < MaxRegistrations
    /\ \E tool \in RegisteredTools, agent_types \in AgentTypeLists :
           registry' = register_tool(registry, tool, agent_types)
    /\ steps' = steps + 1
    /\ UNCHANGED <<program_vars, pc, memory_store, search_call>>

\* A later call of register_tools on the registry.
RegisterTools ==
    /\ pc \in {"registry", "registered"}
    /\ steps < MaxRegistrations
    /\ \E tools \in ToolLists, agent_types \in AgentTypeLists :
           registry' = register_tools(registry, tools, agent_types)
    /\ steps' = steps + 1
    /\ UNCHANGED <<program_vars, pc, memory_store, search_call>>

NextRegistry ==
    \/ CreateToolRegistry
    \/ RegisterTool
    \/ RegisterTools

SpecRegistry == InitRegistry /\ [][NextRegistry]_vars

\* ----------------------------------------------------- memory_manager.py
\* MemoryManager._get_namespace_for_agent (memory_manager.py:273-286); the
\* user id is text and may hold the separator.
get_namespace_for_agent(agent_type, user_id) ==
    IF agent_type \in {"router", "personal_assistant"}
    THEN user_id \o <<":", "long-term">>
    ELSE user_id \o <<":", agent_type, ":", "short-term">>

\* A metadata or filter value: a text, or the {"$gt": ...} dictionary.
StrValue(v) == [kind |-> "str", value |-> v]
GtValue(v) == [kind |-> "dict_gt", value |-> v]

\* MemoryManager._get_default_filter_for_agent (memory_manager.py:311-334),
\* as the set of its <<key, value>> items.
get_default_filter_for_agent(agent_type) ==
    IF agent_type = "router"
    THEN { <<"content_type", StrValue(<<"summary">>)>>, <<"timestamp", GtValue(<<"now-30d">>)>> }
    ELSE IF agent_type = "personal_assistant"
    THEN { <<"timestamp", GtValue(<<"now-90d">>)>> }
    ELSE {}

\* {**a, **b}: the items of b, and those of a whose key b does not hold.
merge_items(a, b) == b \cup {x \in a : \A y \in b : y[1] # x[1]}

\* The metadata stored with a memory (memory_manager.py:136-143).
stored_metadata(metadata, agent_type, user_id) ==
    merge_items(metadata,
                { <<"context", StrValue(<<"context">>)>>,
                  <<"agent_type", StrValue(<<agent_type>>)>>,
                  <<"timestamp", StrValue(<<"now">>)>>,
                  <<"expiration", StrValue(<<"now+ttl">>)>>,
                  <<"user_id", StrValue(user_id)>> })

\* MemoryManager.save_memory on the in-memory store
\* (memory_manager.py:48-107, 109-145): the store with the memory added.
save_memory(memories, agent_type, user_id, content, metadata) ==
    Append(memories,
           [namespace |-> get_namespace_for_agent(agent_type, user_id),
            id |-> Len(memories) + 1,
            content |-> content,
            agent_type |-> agent_type,
            user_id |-> user_id,
            metadata |-> stored_metadata(metadata, agent_type, user_id)])

\* The filter test of _search_in_memory (memory_manager.py:226-231).
metadata_match(memory, filter_metadata) ==
    \A item \in filter_metadata : item \in memory.metadata

\* The loop of _search_in_memory (memory_manager.py:224-242) over the
\* memories of the namespace, results being the matches collected so far.
RECURSIVE search_loop(_, _, _, _, _)
search_loop(memories, query, filter_metadata, limit, results) ==
    IF memories = <<>> THEN results
    ELSE LET memory == Head(memories)
         IN IF metadata_match(memory, filter_metadata)
               /\ contains(lower(memory.content), lower(query))
            THEN IF Len(results) + 1 >= limit
                 THEN Append(results, memory)
                 ELSE search_loop(Tail(memories), query, filter_metadata, limit,
                                  Append(results, memory))
            ELSE search_loop(Tail(memories), query, filter_metadata, limit, results)

\* MemoryManager.search_memory on the in-memory store
\* (memory_manager.py:147-199, 201-242).
search_memory(memories, agent_type, user_id, query, filter_metadata, limit) ==
    LET namespace == get_namespace_for_agent(agent_type, user_id)
        combined_filter ==
            merge_items(filter_metadata, get_default_filter_for_agent(agent_type))
    IN search_loop(SelectSeq(memories, LAMBDA m : m.namespace = namespace),
                   query, combined_filter, limit, <<>>)

\* The agent types, user ids, contents, queries, metadata, filters and limits
\* of the calls.
MemoryAgents == {"router", "personal_assistant", "research", "website"}
UserIds == { <<"u">>, <<"u", ":", "research">> }
MemoryContents == { <<"A", "b">>, <<"b">> }
MemoryQueries == { <<"a">>, <<"b">> }
MemoryMetadata == { {}, { <<"content_type", StrValue(<<"summary">>)>> } }
SearchLimits == {0, 1, 2}

InitMemory ==
    /\ messages = <<>>
    /\ next = None
    /\ active_agent = None
    /\ feature_requests = 0
    /\ user_name = NoneText
    /\ user_uid = 0
    /\ routing_reason = None
    /\ specialist_results = FALSE
    /\ first_message = TRUE
    /\ original_question = NoneText
    /\ awaiting_approval = <<>>
    /\ session_state = None
    /\ store = EmptyStore
    /\ uuids = 0
    /\ pc = "memory"
    /\ steps = 0
    /\ raised = ""
    /\ branch = "none"
    /\ classifier_output = NoneText
    /\ target = "none"
    /\ thread_id = "thread_1"
    /\ checkpoint = NoCheckpoint
    /\ queries = NoQueries
    /\ registry = ToolRegistry
    /\ memory_store = <<>>
    /\ search_call = NoSearch

\* A call of save_memory.
SaveMemory ==
    /\ pc = "memory"
    /\ Len(memory_store) < MaxMemories
    /\ \E agent_type \in MemoryAgents, user_id \in UserIds,
          content \in MemoryContents, metadata \in MemoryMetadata :
           memory_store' = save_memory(memory_store, agent_type, user_id, content, metadata)
    /\ UNCHANGED <<program_vars, pc, steps, registry, search_call>>

\* A call of search_memory.
SearchMemory ==
    /\ pc = "memory"
    /\ \E agent_type \in MemoryAgents, user_id \in UserIds, query \in MemoryQueries,
          filter_metadata \in MemoryMetadata, limit \in SearchLimits :
           search_call' =
               [called |-> TRUE, agent_type |-> agent_type, user_id |-> user_id,
                query |-> query, filter_metadata |-> filter_metadata, limit |-> limit,
                results |-> search_memory(memory_store, agent_type, user_id, query,
                                          filter_metadata, limit)]
    /\ UNCHANGED <<program_vars, pc, steps, registry, memory_store>>

NextMemory ==
    \/ SaveMemory
    \/ SearchMemory

SpecMemory == InitMemory /\ [][NextMemory]_vars

\* ------------------------------------- the session tool, call by call
\* What a caller may pass as user_name_to_set: nothing, an empty string, a
\* name, another name.
SessionArgs == { NoneText, <<>>, <<"Alex">>, <<"Bob">> }

\* The process starts with an empty store (tools.py:25).
InitSession ==
    /\ messages = <<>>
    /\ next = None
    /\ active_agent = None
    /\ feature_requests = 0
    /\ user_name = NoneText
    /\ user_uid = 0
    /\ routing_reason = None
    /\ specialist_results = FALSE
    /\ first_message = TRUE
    /\ original_question = NoneText
    /\ awaiting_approval = <<>>
    /\ session_state = None
    /\ store = EmptyStore
    /\ uuids = 0
    /\ pc = "session"
    /\ steps = 0
    /\ raised = ""
    /\ branch = "none"
    /\ classifier_output = NoneText
    /\ target = "none"
    /\ thread_id \in Threads
    /\ checkpoint = NoCheckpoint
    /\ queries = NoQueries
    /\ registry = ToolRegistry
    /\ memory_store = <<>>
    /\ search_call = NoSearch

\* One thread's invocation requests manage_user_session and the tools node
\* serves the request (graph.py:216-226, 285-294, 656-660; tools.py:124-172).
\* messages is here the log of those requests and results, whichever thread
\* made them, in the order the store served them.
SessionCall ==
    /\ pc = "session"
    /\ steps < MaxCalls
    /\ \E t \in Threads, user_name_to_set \in SessionArgs :
           LET request ==
                   [AIMessage("PersonalAssistantSessionToolCall", <<>>) EXCEPT
                       !.tool_calls = <<ToolCall("manage_user_session", user_name_to_set,
                                                 uuids + 1)>>]
               r == run_tools(request.tool_calls, store, uuids + 1, <<"empty_list">>)
           IN /\ messages' = messages \o <<request>> \o r.msgs
              /\ store' = r.store
              /\ uuids' = r.uuids
              /\ thread_id' = t
    /\ steps' = steps + 1
    /\ UNCHANGED <<component_vars, original_question, awaiting_approval,
                   next, active_agent, feature_requests, user_name, user_uid,
                   routing_reason, specialist_results, first_message, session_state,
                   pc, raised, branch, classifier_output, target, checkpoint, queries>>

NextSession == SessionCall

SpecSession == InitSession /\ [][NextSession]_vars

\* ------------------------------------------------- reading the history
SpecialistNodes == {"features_agent", "deep_research_agent", "web_search_agent"}
SpecialistNames == {"FeaturesAgent", "DeepResearch", "WebSearchAgent"}
KnownAgents == {"personal_assistant", "features_agent", "deep_research", "web_search"}

\* The agent that wrote an AIMessage, by the name the node gives its messages.
Issuer(m) ==
    IF m.name = "FeaturesAgent" THEN "features_agent"
    ELSE IF m.name = "DeepResearch" THEN "deep_research"
    ELSE IF m.name = "WebSearchAgent" THEN "web_search"
    ELSE "personal_assistant"

\* The graph node that runs an agent.
NodeOf(agent) ==
    IF agent = "features_agent" THEN "features_agent"
    ELSE IF agent = "deep_research" THEN "deep_research_agent"
    ELSE IF agent = "web_search" THEN "web_search_agent"
    ELSE "personal_assistant_agent"

IsRequest(m) == m.type = "ai" /\ m.tool_calls # <<>>

\* Index of the last message that carries tool calls (0: none).
LastRequestIndex ==
    LET I == {i \in 1..Len(messages) : IsRequest(messages[i])}
    IN IF I = {} THEN 0 ELSE CHOOSE i \in I : \A j \in I : j <= i

\* Index of the last user message (0: none).
LastHumanIndex ==
    LET I == {i \in 1..Len(messages) : messages[i].type = "human"}
    IN IF I = {} THEN 0 ELSE CHOOSE i \in I : \A j \in I : j <= i

\* A tool result has just been appended and an agent is about to receive it.
ResultDelivered ==
    /\ pc \in AgentNodes
    /\ messages # <<>>
    /\ Last(messages).type = "tool"

\* ----------------------------------------------------------------- C1
\* C1: while the tools node runs for a request of agent A, active_agent, if it
\* names a known agent, names A; and the tool result is then handed to A's
\* node (with active_agent still A), or, when active_agent names no known
\* agent, to the personal assistant.
C1_ToolResultReturnsToRequester ==
    /\ (pc = "tools" /\ active_agent \in KnownAgents)
          => active_agent = Issuer(Last(messages))
    /\ ResultDelivered =>
          LET A == Issuer(messages[LastRequestIndex])
          IN IF active_agent \in KnownAgents
             THEN active_agent = A /\ pc = NodeOf(A)
             ELSE pc = "personal_assistant_agent"

\* A deep research request was answered and the deep research agent is
\* about to be invoked with the result.
C1_Witness ==
    /\ ResultDelivered
    /\ pc = "deep_research_agent"
    /\ Issuer(messages[LastRequestIndex]) = "deep_research"
    /\ active_agent = "deep_research"

\* ----------------------------------------------------------------- C2
\* C2: a personal-assistant step that runs the classification call (and then
\* hands off or handles directly) starts in a state whose session_state is
\* none.
C2_NoRoutingDuringBootstrap ==
    [][(pc = "personal_assistant_agent" /\ target' # "none") => session_state = None]_vars

\* A user message was received while waiting for the name and the personal
\* assistant answered it with the session upsert, not with routing.
C2_Witness ==
    /\ branch = "session_upsert"
    /\ target = "none"
    /\ session_state = SESSION_STATE_CHECKING
    /\ messages[Len(messages) - 1].type = "human"

\* ----------------------------------------------------------------- C3
\* C3: every cycle reaches end-of-turn within its budget of invocations; no
\* cycle is cut off by the step limit with a node still to run.
C3_CycleReachesEndOfTurn == raised # "GraphRecursionError"

\* ----------------------------------------------------------------- C4
\* A specialist wrote a final message (no tool calls) in the current turn.
SpecialistFinishedThisTurn ==
    \E i \in (LastHumanIndex + 1)..Len(messages) :
        messages[i].name \in SpecialistNames /\ messages[i].tool_calls = <<>>

\* C4: a turn in which a specialist returned a final message ends with the
\* personal assistant's synthesized presentation of it.
C4_SpecialistResultPresented ==
    (pc = "idle" /\ SpecialistFinishedThisTurn) =>
        /\ Last(messages).name = "PersonalAssistant"
        /\ Last(messages).status \in {"presenting_search_results",
                                      "presenting_specialist_results"}

\* ----------------------------------------------------------------- C5
\* C5: at the end of a turn in which a specialist completed, active_agent and
\* routing_reason are both none.
C5_PresenterClearsRouting ==
    (pc = "idle" /\ SpecialistFinishedThisTurn) =>
        (active_agent = None /\ routing_reason = None)

\* ----------------------------------------------------------------- C6
NumTool == Len(SelectSeq(messages, LAMBDA m : m.type = "tool"))

\* The current turn is one in which the user's message was taken as the name:
\* the message after it is the session upsert request.
NameTurn ==
    /\ LastHumanIndex > 0
    /\ Len(messages) > LastHumanIndex
    /\ messages[LastHumanIndex + 1].name = "PersonalAssistantSessionToolCall"
    /\ messages[LastHumanIndex + 1].tool_calls[1].args # NoneText

C7_FallbackRoutesToPrimaryAndEnds ==
    [][ /\ (pc = "tools" /\ active_agent \notin KnownAgents)
              => (pc' = "personal_assistant_agent" /\ raised' = "")
        /\ (ResultDelivered /\ active_agent \notin KnownAgents)
              => (pc' = "idle" /\ raised' = "") ]_vars

\* A tool result was routed to the personal assistant by the fallback.
C7_Witness ==
    /\ ResultDelivered
    /\ active_agent = None
    /\ pc = "personal_assistant_agent"

\* ----------------------------------------------------------------- C8
\* C8 as stated: no message carries more than one tool request, so an agent
\* never has two requests outstanding.
C8_OneOutstandingRequest ==
    \A i \in 1..Len(messages) : Len(messages[i].tool_calls) <= 1

\* C8 amended: request messages and their results alternate. Every message
\* with tool calls is either the last message, with the tools node (or the step
\* limit) next, or is followed at once by one result per call, in order and
\* with the call's id; and every result belongs to such a group.
C8_RequestsAndResultsAlternate ==
    /\ \A i \in 1..Len(messages) :
          IsRequest(messages[i]) =>
              LET calls == messages[i].tool_calls
              IN IF i = Len(messages) THEN pc \in {"tools", "error"}
                 ELSE /\ i + Len(calls) <= Len(messages)
                      /\ \A k \in 1..Len(calls) :
                            /\ messages[i + k].type = "tool"
                            /\ messages[i + k].tool_call_id = calls[k].id
    /\ \A j \in 1..Len(messages) :
          messages[j].type = "tool" =>
              \E i \in 1..(j - 1) :
                  IsRequest(messages[i]) /\ j - i <= Len(messages[i].tool_calls)
    /\ pc = "tools" => IsRequest(Last(messages))

\* An agent issued a message with two tool calls, both were answered, and the
\* same agent then issued its next request.
C8_Witness ==
    \E i \in 1..Len(messages) : \E j \in (i + 1)..Len(messages) :
        /\ IsRequest(messages[i]) /\ IsRequest(messages[j])
        /\ Len(messages[i].tool_calls) = 2
        /\ i > LastHumanIndex
        /\ Issuer(messages[i]) = Issuer(messages[j])

\* ----------------------------------------------------------------- C9
\* Two characters that differ at most in case.
SameLetter(a, b) ==
    a = b \/ \E n \in 1..Len(LowerLetters) : {a, b} = {LowerLetters[n], UpperLetters[n]}

\* The label occurs in the text, case ignored.
Mentions(text, label) ==
    \E i \in 0..(Len(text) - Len(label)) :
        \A k \in 1..Len(label) : SameLetter(text[i + k], label[k])

\* C9: the target chosen for a classifier output is the first label, in the
\* order FEATURES_AGENT, DEEP_RESEARCH, WEB_SEARCH, that the output mentions
\* anywhere, case ignored.
C9_FirstMatchInPriorityOrder ==
    target # "none" =>
        /\ Mentions(classifier_output, FEATURES_AGENT) => target = "features_agent"
        /\ (~Mentions(classifier_output, FEATURES_AGENT)
            /\ Mentions(classifier_output, DEEP_RESEARCH)) => target = "deep_research_agent"
        /\ (~Mentions(classifier_output, FEATURES_AGENT)
            /\ ~Mentions(classifier_output, DEEP_RESEARCH)
            /\ Mentions(classifier_output, WEB_SEARCH)) => target = "web_search_agent"

\* An output naming two labels, the lower-priority one first and the
\* higher-priority one in lower case, was classified.
C9_Witness ==
    /\ classifier_output = WEB_SEARCH \o lower(FEATURES_AGENT)
    /\ target = "features_agent"

\* ---------------------------------------------------------------- C10
\* C10: when the classifier output mentions no specialist label, the primary
\* agent is chosen and answers in the same step (a PersonalAssistant
\* direct-handling message, possibly with tool calls of its own); and while
\* routing_reason records direct handling no specialist node is scheduled.
C10_NoMatchHandledByPrimary ==
    /\ (/\ target # "none"
        /\ ~Mentions(classifier_output, FEATURES_AGENT)
        /\ ~Mentions(classifier_output, DEEP_RESEARCH)
        /\ ~Mentions(classifier_output, WEB_SEARCH)) =>
           /\ target = "personal_assistant_agent"
           /\ routing_reason = "direct_handling"
           /\ Last(messages).name = "PersonalAssistant"
           /\ Last(messages).status = "direct_handling"
           /\ active_agent \in {None, "personal_assistant"}
           /\ pc \in {"idle", "tools"}
    /\ routing_reason = "direct_handling" => pc \notin SpecialistNodes

\* The classifier answered with empty text and the personal assistant
\* answered the user itself.
C10_Witness ==
    /\ classifier_output = <<>>
    /\ target = "personal_assistant_agent"
    /\ branch = "route_direct"
    /\ pc = "idle"

\* ----------------------------------------------- reading one step
\* The messages a step appends.
Appended == SubSeq(messages', Len(messages) + 1, Len(messages'))

\* The values of active_agent that name a specialist.
SpecialistAgents == {"features_agent", "deep_research", "web_search"}

\* A tool result is the last message and the personal assistant is about to
\* run with session_state = checking.
SessionResultArrives ==
    /\ pc = "personal_assistant_agent"
    /\ messages # <<>>
    /\ Last(messages).type = "tool"
    /\ session_state = SESSION_STATE_CHECKING

\* A user message is the last message and the personal assistant is about to
\* run with session_state = waiting_for_name.
NameMessageArrives ==
    /\ pc = "personal_assistant_agent"
    /\ messages # <<>>
    /\ Last(messages).type = "human"
    /\ session_state = SESSION_STATE_WAITING_FOR_NAME

\* The step appends exactly one message, which requests manage_user_session
\* once with the argument given and says nothing to the user.
AppendsSessionRequest(user_name_to_set) ==
    /\ Len(Appended) = 1
    /\ Appended[1].type = "ai"
    /\ Appended[1].content = <<>>
    /\ Len(Appended[1].tool_calls) = 1
    /\ Appended[1].tool_calls[1].name = "manage_user_session"
    /\ Appended[1].tool_calls[1].args = user_name_to_set

\* The step appends exactly one message, a reply of the personal assistant
\* to the user with the status given and no tool call.
AppendsReply(status) ==
    /\ Len(Appended) = 1
    /\ Appended[1].type = "ai"
    /\ Appended[1].name = "PersonalAssistant"
    /\ Appended[1].status = status
    /\ Appended[1].tool_calls = <<>>

\* ---------------------------------------------------------------- C11
\* C11: a step appends a handoff context note exactly when it is a
\* personal-assistant step whose routing outcome is a specialist.  On such a
\* step the one message appended is the note, flagged is_context, active_agent
\* names the chosen specialist, routing_reason is set and the specialist's node
\* runs next; on a primary outcome no note is appended, no specialist becomes
\* active and no specialist node runs next.
C11_HandoffNoteIffSpecialist ==
    [][ /\ (pc = "personal_assistant_agent" /\ target' \in SpecialistNodes) =>
              /\ Len(Appended) = 1
              /\ Appended[1].is_context
              /\ Appended[1].name = "PersonalAssistant_ContextNote"
              /\ active_agent' \in SpecialistAgents
              /\ NodeOf(active_agent') = target'
              /\ routing_reason' \notin {None, "direct_handling"}
              /\ pc' = target'
        /\ (pc = "personal_assistant_agent" /\ target' = "personal_assistant_agent") =>
              /\ \A i \in 1..Len(Appended) : ~Appended[i].is_context
              /\ active_agent' \notin SpecialistAgents
              /\ pc' \notin SpecialistNodes
        /\ (\E i \in 1..Len(Appended) : Appended[i].is_context) =>
              (pc = "personal_assistant_agent" /\ target' \in SpecialistNodes)
      ]_vars

\* The personal assistant has just handed a request to deep research.
C11_Witness ==
    /\ branch = "route_specialist"
    /\ Last(messages).is_context
    /\ messages[Len(messages) - 1].type = "human"
    /\ active_agent = "deep_research"
    /\ pc = "deep_research_agent"

\* ---------------------------------------------------------------- C12
\* C12: when the personal assistant runs with first_message set and no
\* user_name, it sets session_state to checking and appends exactly one
\* message: a request for manage_user_session with no argument and no text
\* for the user; no routing decision is taken and the tools node runs next.
C12_FirstMessageStartsLookup ==
    [][ (pc = "personal_assistant_agent" /\ first_message /\ ~Truthy(user_name)) =>
              /\ session_state' = SESSION_STATE_CHECKING
              /\ AppendsSessionRequest(NoneText)
              /\ target' = "none"
              /\ pc' = "tools"
      ]_vars

\* The lookup request for the thread's first message is pending.
C12_Witness ==
    /\ branch = "session_lookup"
    /\ pc = "tools"
    /\ session_state = SESSION_STATE_CHECKING
    /\ NumHuman = 1
    /\ Len(messages) = 2
    /\ ~first_message

\* ---------------------------------------------------------------- C13
\* C13: when a session tool result with a name and an id arrives while
\* session_state is checking, the step sets user_name and user_uid to them,
\* sets session_state to none, appends one greeting and ends the turn.
C13_KnownIdentityResolves ==
    [][ (/\ SessionResultArrives
         /\ Last(messages).name = "manage_user_session"
         /\ Truthy(Last(messages).payload.user_name)
         /\ Last(messages).payload.user_uid # 0) =>
              /\ user_name' = Last(messages).payload.user_name
              /\ user_uid' = Last(messages).payload.user_uid
              /\ session_state' = None
              /\ AppendsReply("greeting_returning_user")
              /\ pc' = "idle"
      ]_vars

\* The lookup of the thread's first message found a stored identity and the
\* thread was greeted with it.
C13_Witness ==
    /\ branch = "session_found"
    /\ pc = "idle"
    /\ NumTool = 1
    /\ user_name = <<"Eve">>
    /\ user_uid = 1
    /\ session_state = None

\* ---------------------------------------------------------------- C14
\* C14: when a session tool result without a name arrives while session_state
\* is checking, the step sets session_state to waiting_for_name, appends one
\* question for the name and ends the turn; user_name and user_uid stay
\* unset.
C14_NoIdentityAsksForName ==
    [][ (SessionResultArrives /\ ~Truthy(Last(messages).payload.user_name)) =>
              /\ session_state' = SESSION_STATE_WAITING_FOR_NAME
              /\ AppendsReply("greeting_new_user")
              /\ pc' = "idle"
              /\ user_name' = NoneText
              /\ user_uid' = 0
      ]_vars

\* The lookup found nothing and the thread waits for a name.
C14_Witness ==
    /\ branch = "session_ask_name"
    /\ pc = "idle"
    /\ session_state = SESSION_STATE_WAITING_FOR_NAME
    /\ user_name = NoneText
    /\ user_uid = 0

\* ---------------------------------------------------------------- C15
\* C15 as stated: on a user message received in waiting_for_name the message
\* content itself is the name the upsert request carries, session_state
\* returns to checking and no routing decision is taken.
C15_ContentIsTheName ==
    [][ NameMessageArrives =>
              /\ AppendsSessionRequest(Last(messages).content)
              /\ session_state' = SESSION_STATE_CHECKING
              /\ target' = "none"
              /\ pc' = "tools"
      ]_vars

\* C15 amended: the name the request carries is the message content with
\* leading and trailing whitespace removed (empty for a blank message);
\* session_state returns to checking and no routing decision is taken.
C15_StrippedContentIsTheName ==
    [][ NameMessageArrives =>
              /\ AppendsSessionRequest(strip(Last(messages).content))
              /\ session_state' = SESSION_STATE_CHECKING
              /\ target' = "none"
              /\ pc' = "tools"
      ]_vars

\* The user answered " Alex" and the request carries "Alex".
C15_Witness ==
    /\ branch = "session_upsert"
    /\ pc = "tools"
    /\ session_state = SESSION_STATE_CHECKING
    /\ messages[Len(messages) - 1].content = <<" ", "Alex">>
    /\ Last(messages).tool_calls[1].args = <<"Alex">>

\* ---------------------------------------------------------------- C16
\* C16: once the store holds an id no step changes it, whatever names are
\* upserted later; and once the thread's user_uid is set no step changes it.
C16_StableIdImmutable ==
    [][ /\ store.user_uid # 0 => store'.user_uid = store.user_uid
        /\ user_uid # 0 => user_uid' = user_uid
      ]_vars

\* The thread resolved to the stored identity, then an upsert with another
\* name was served: the name changed, the id did not.
C16_Witness ==
    /\ user_name = <<"Eve">>
    /\ user_uid = 1
    /\ store.user_name = <<"Bob">>
    /\ store.user_uid = 1

\* ------------------------------------------ reading the log of calls
\* The argument and the returned value of the k-th call of a log.
CallArg(log, k) == log[2 * k - 1].tool_calls[1].args
CallResult(log, k) == log[2 * k].payload

\* The step serves one call of manage_user_session.
ServesCall == pc = "session" /\ steps' = steps + 1

\* ---------------------------------------------------------------- C17
\* C17: an upsert that repeats the name of the upsert served just before it
\* leaves the store as it was and returns the same user_name and user_uid.
C17_UpsertIdempotentUnderRetry ==
    [][ (/\ ServesCall
         /\ steps >= 1
         /\ Truthy(CallArg(messages', steps'))
         /\ CallArg(messages', steps') = CallArg(messages, steps)) =>
              /\ store' = store
              /\ CallResult(messages', steps') = CallResult(messages, steps)
      ]_vars

\* The first upsert of a process and its retry have been served.
C17_Witness ==
    /\ pc = "session"
    /\ steps = 2
    /\ CallArg(messages, 1) = <<"Alex">>
    /\ CallArg(messages, 2) = <<"Alex">>
    /\ store.user_name = <<"Alex">>

\* ---------------------------------------------------------------- C18
\* C18: in the log of calls, a lookup served before any upsert with a
\* non-empty name returned null name and id; a lookup served after one
\* returned the name of the latest such upsert and the id that upsert returned.
C18_SessionStoreRoundTrip ==
    \A k \in 1..steps :
        ~Truthy(CallArg(messages, k)) =>
            LET U == {j \in 1..(k - 1) : Truthy(CallArg(messages, j))}
            IN IF U = {}
               THEN CallResult(messages, k) = SessionJson(NoneText, 0)
               ELSE LET j == CHOOSE i \in U : \A h \in U : h <= i
                    IN /\ CallResult(messages, k).user_name = CallArg(messages, j)
                       /\ CallResult(messages, k).user_uid = CallResult(messages, j).user_uid
                       /\ CallResult(messages, j).user_uid # 0

\* A lookup, an upsert and a lookup have been served in that order.
C18_Witness ==
    /\ pc = "session"
    /\ steps = 3
    /\ CallArg(messages, 1) = NoneText
    /\ CallArg(messages, 2) = <<"Bob">>
    /\ CallArg(messages, 3) = NoneText
    /\ CallResult(messages, 3).user_name = <<"Bob">>

\* ---------------------------------------------------------------- C19
\* What a lookup made for thread t returns from store st.
lookup_for(st, t) == manage_user_session(st, NoneText, 0).payload

\* C19: an upsert served for one thread leaves the result of a lookup made for
\* any other thread as it was.
C19_UpsertInvisibleToOtherThreads ==
    [][ (ServesCall /\ Truthy(CallArg(messages', steps'))) =>
              \A t \in Threads \ {thread_id'} :
                  lookup_for(store', t) = lookup_for(store, t)
      ]_vars

\* ---------------------------------------------------------------- C20
\* C20: when the steps of a cycle are used up the cycle is over: no node is
\* left to run, no exception ends the invocation, active_agent is none and
\* the thread waits for the next user message.
C20_ExhaustionEndsCycle ==
    steps >= RecursionLimit =>
        /\ pc = "idle"
        /\ raised = ""
        /\ active_agent = None

\* ------------------------------------------ reading requests and results
\* The places <<i, k>> of the tool calls in the history: call k of message i.
CallPlaces ==
    UNION { {<<i, k>> : k \in 1..Len(messages[i].tool_calls)} : i \in 1..Len(messages) }

CallAt(p) == messages[p[1]].tool_calls[p[2]]

\* The places of the calls, made before message j, that carry the id of the
\* tool result at j.
RequestsOf(j) ==
    {p \in CallPlaces : p[1] < j /\ CallAt(p).id = messages[j].tool_call_id}

\* The agent whose request the tool result at j answers.
RequesterOf(j) == Issuer(messages[(CHOOSE p \in RequestsOf(j) : TRUE)[1]])

\* The agent that issued the call with the id given.
IssuerOfCall(id) ==
    Issuer(messages[(CHOOSE p \in CallPlaces : CallAt(p).id = id)[1]])

\* The messages of the current turn, after the last user message.
Turn == SubSeq(messages, LastHumanIndex + 1, Len(messages))

\* A tool result that reports a failure: the search tool's own error entry
\* (tools.py:119-122) or the tools node's error text.
IsErrorResult(m) ==
    m.type = "tool" /\ m.payload.kind \in {"search_error_list", "error_text"}

\* ---------------------------------------------------------------- C21
\* C21: the history a specialist (features, deep research) is about to pass to
\* its model holds only user messages, context notes and results of tool
\* requests that this specialist issued.
C21_SpecialistSeesOnlyItsOwn ==
    \A agent \in {"features_agent", "deep_research"} :
        pc = NodeOf(agent) =>
            LET history == agent_messages(State, agent)
            IN \A k \in 1..Len(history) :
                   \/ history[k].type = "human"
                   \/ history[k].is_context
                   \/ /\ history[k].type = "tool"
                      /\ IssuerOfCall(history[k].tool_call_id) = agent

\* ---------------------------------------------------------------- C23
\* C23: every step that extends the history keeps call ids correlated: a
\* call the step adds carries an id no other call of the thread carries;
\* every tool result the step adds carries the id of an earlier call, that
\* call belongs to the last request message before the result, and no earlier
\* result answered it.
C23_CallIdsCorrelate ==
    [][LET log == messages'
           old == Len(messages)
           places == UNION { {<<i, k>> : k \in 1..Len(log[i].tool_calls)} :
                             i \in 1..Len(log) }
       IN Len(log) > old =>
              /\ \A p \in places :
                     p[1] > old =>
                         \A q \in places :
                             q # p => log[q[1]].tool_calls[q[2]].id
                                          # log[p[1]].tool_calls[p[2]].id
              /\ \A j \in (old + 1)..Len(log) :
                     log[j].type = "tool" =>
                         /\ \E p \in places :
                                /\ p[1] < j
                                /\ log[p[1]].tool_calls[p[2]].id = log[j].tool_call_id
                                /\ \A i \in (p[1] + 1)..(j - 1) : log[i].type = "tool"
                         /\ \A i \in 1..(j - 1) :
                                log[i].type = "tool" =>
                                    log[i].tool_call_id # log[j].tool_call_id
      ]_vars

\* One message requested two tools and both results, each with its own id,
\* follow it.
C23_Witness ==
    \E i \in 1..Len(messages) :
        /\ Len(messages[i].tool_calls) = 2
        /\ i + 2 <= Len(messages)
        /\ messages[i + 1].tool_call_id = messages[i].tool_calls[1].id
        /\ messages[i + 2].tool_call_id = messages[i].tool_calls[2].id
        /\ messages[i + 1].tool_call_id # messages[i + 2].tool_call_id

\* ---------------------------------------------------------------- C27
\* A turn handed to the web search agent: its first message is a context note
\* and the web search agent runs next or wrote the second message.
WebSearchTurn ==
    /\ Len(Turn) >= 1
    /\ LastHumanIndex >= 1
    /\ Turn[1].is_context
    /\ \/ Len(Turn) = 1 /\ pc = "web_search_agent"
       \/ Len(Turn) >= 2 /\ Turn[2].name = "WebSearchAgent"

C28_ErrorResultsEndInFinalMessage ==
    LET results == {i \in (LastHumanIndex + 1)..Len(messages) : messages[i].type = "tool"}
    IN ~ /\ raised = "GraphRecursionError"
         /\ results # {}
         /\ \A i \in results :
                IsErrorResult(messages[i]) /\ RequesterOf(i) \in SpecialistAgents

\* ---------------------------------------------------------------- C29
\* C29: active_agent is none or the identifier of one agent of the graph.
C29_SingleActiveAgent ==
    active_agent \in {None, "personal_assistant", "features_agent", "deep_research",
                      "web_search"}

\* The web search agent replaced the value the personal assistant had set
\* and its request is at the tools node.
C29_Witness ==
    /\ active_agent = "web_search"
    /\ pc = "tools"
    /\ Last(messages).name = "WebSearchAgent"

\* ---------------------------------------------------------------- C30
\* C30: every step leaves the messages it found in place and in order, and
\* only adds messages at the end.
C30_HistoryAppendOnly ==
    [][ /\ Len(messages') >= Len(messages)
        /\ SubSeq(messages', 1, Len(messages)) = messages
      ]_vars

\* A thread after two turns in which every kind of step appended messages.
C30_Witness ==
    /\ pc = "idle"
    /\ NumHuman = 2
    /\ NumTool >= 2
    /\ \E i \in 1..Len(messages) : messages[i].is_context
    /\ Last(messages).name = "DeepResearch"

\* ---------------------------------------------------------------- C22
\* C22: the history a specialist (features, deep research) is about to pass to
\* its model holds no context note of an earlier handoff: it holds one note,
\* the one built for this invocation's handoff.
C22_OnlyTheCurrentNoteDelivered ==
    \A agent \in {"features_agent", "deep_research"} :
        pc = NodeOf(agent) =>
            Len(SelectSeq(agent_messages(State, agent), LAMBDA m : m.is_context)) = 1

\* ---------------------------------------------------------------- C24
\* C24: whatever a tool result holds (unparseable text, null, a list of
\* non-objects), the agent that consumes it does not raise: no invocation
\* over failing tools ends with an exception.
C24_MalformedResultNeverFatal == raised = "" /\ pc # "error"

\* ---------------------------------------------------------------- C25
\* Message i is the result of a session call of the bootstrap that came back
\* as an error text instead of an identity.
SessionFailureAt(i) ==
    /\ messages[i].type = "tool"
    /\ messages[i].name = "manage_user_session"
    /\ messages[i].payload.kind = "error_text"
    /\ messages[i - 1].name = "PersonalAssistantSessionToolCall"

\* C25: a session call of the bootstrap that returns an error raises nothing
\* and leaves the bootstrap in a state of its own machine: the personal
\* assistant reads the result in state checking, asks for the name, ends the
\* turn in state waiting_for_name with no identity set, and on the next user
\* message calls the session store again with that message's stripped content.
C25_SessionFailureRetries ==
    \A i \in 2..Len(messages) :
        SessionFailureAt(i) =>
            /\ i = Len(messages) =>
                   /\ pc = "personal_assistant_agent"
                   /\ raised = ""
                   /\ session_state = SESSION_STATE_CHECKING
            /\ i < Len(messages) =>
                   /\ messages[i + 1].type = "ai"
                   /\ messages[i + 1].name = "PersonalAssistant"
                   /\ messages[i + 1].status = "greeting_new_user"
            /\ i + 1 = Len(messages) =>
                   /\ pc = "idle"
                   /\ raised = ""
                   /\ session_state = SESSION_STATE_WAITING_FOR_NAME
                   /\ ~Truthy(user_name)
                   /\ user_uid = 0
            /\ i + 2 = Len(messages) =>
                   /\ messages[i + 2].type = "human"
                   /\ pc = "personal_assistant_agent"
                   /\ session_state = SESSION_STATE_WAITING_FOR_NAME
            /\ i + 3 <= Len(messages) =>
                   /\ messages[i + 3].name = "PersonalAssistantSessionToolCall"
                   /\ Len(messages[i + 3].tool_calls) = 1
                   /\ messages[i + 3].tool_calls[1].name = "manage_user_session"
                   /\ messages[i + 3].tool_calls[1].args = strip(messages[i + 2].content)

\* A thread whose lookup failed resolved on the retry of the next turn.
C25_Witness ==
    /\ \E i \in 2..Len(messages) : SessionFailureAt(i)
    /\ pc = "idle"
    /\ session_state = None
    /\ Truthy(user_name)
    /\ user_uid # 0

\* ---------------------------------------------------------------- C26
\* A call of process_user_query is between its load and its save.
InFlight(q) == queries[q].pc = "invoking"

\* C26: per thread id, calls of process_user_query do not overlap (at most
\* one call is between its load and its save), and the state saved for a
\* thread holds the user message of every call that finished on it.
C26_OneQueryAtATimePerThread ==
    /\ \A q1, q2 \in QueryIds :
           (q1 # q2 /\ InFlight(q1) /\ InFlight(q2)) =>
               queries[q1].thread_id # queries[q2].thread_id
    /\ \A q \in QueryIds :
           queries[q].pc = "done" =>
               \E i \in 1..Len(checkpoint[queries[q].thread_id].messages) :
                   checkpoint[queries[q].thread_id].messages[i] = HumanMessage(user_input(q))

\* ---------------------------------------------------------------- C31
\* The graph has returned from a turn and waits for the next user message.
EndOfTurn == pc = "idle" /\ messages # <<>>

\* C31: at every end-of-turn state, whatever path the turn took,
\* active_agent is none.
C31_NoActiveAgentAtEndOfTurn == EndOfTurn => active_agent = None

\* A turn in which the personal assistant was the active agent of a tool
\* request has ended with its answer to the tool result.
C31_Witness ==
    /\ EndOfTurn
    /\ Last(messages).status = "direct_handling_tool_response"
    /\ \E i \in (LastHumanIndex + 1)..Len(messages) : messages[i].type = "tool"

\* ---------------------------------------------------------------- C32
\* C32: whenever the tools node runs next, active_agent is the agent that
\* issued the last message, which carries the tool calls to execute.
C32_ActiveAgentIsTheRequester ==
    pc = "tools" =>
        /\ IsRequest(Last(messages))
        /\ active_agent = Issuer(Last(messages))

\* ---------------------------------------------------------------- C33
\* C33: at every end-of-turn state the last message is an agent message that
\* carries no tool call and is not a handoff context note.
C33_TurnEndsWithAgentMessage ==
    EndOfTurn =>
        /\ Last(messages).type = "ai"
        /\ Last(messages).tool_calls = <<>>
        /\ ~Last(messages).is_context

\* ---------------------------------------------------------------- C35
\* The content of the first user message of the thread.
FirstQuestion == messages[CHOOSE i \in 1..Len(messages) :
                              /\ messages[i].type = "human"
                              /\ \A j \in 1..(i - 1) : messages[j].type # "human"].content

\* C35: once the personal assistant has taken up the first message of a user
\* who has no session, original_question holds that message's content, and
\* it still does when the thread is resolved.
C35_OriginalQuestionKept ==
    (NumHuman >= 1 /\ ~first_message) => original_question = FirstQuestion

\* ---------------------------------------------------------------- C37
\* Index of the last user message before message i (0: none).
HumanBefore(i) ==
    LET I == {j \in 1..(i - 1) : messages[j].type = "human"}
    IN IF I = {} THEN 0 ELSE CHOOSE j \in I : \A k \in I : k <= j

\* C37: the query of every search request of the web search agent is the
\* text of the user message that caused the handoff, the last user message
\* before the request (whose context note is the most recent one).
C37_QueryIsTheUserRequest ==
    \A i \in 1..Len(messages) :
        (messages[i].name = "WebSearchAgent" /\ IsRequest(messages[i])) =>
            /\ HumanBefore(i) > 0
            /\ messages[i].tool_calls[1].args = messages[HumanBefore(i)].content

\* ---------------------------------------------------------------- C34
\* Message j is the result of a call that needed approval: a session call
\* of the personal assistant.
GatedResultAt(j) ==
    /\ messages[j].type = "tool"
    /\ messages[j].name = "manage_user_session"
    /\ IssuerOfCall(messages[j].tool_call_id) = "personal_assistant"

\* C34: a tool call that needs approval is executed only after the human
\* wrote a message containing 'approve' in answer to the approval request:
\* between the request message and the tool's result lie the approval
\* request and then a message of the human with 'approve' in it.
C34_ToolRunsOnlyAfterApproval ==
    \A j \in 1..Len(messages) :
        GatedResultAt(j) =>
            \E q \in 1..(j - 1) : \E h \in (q + 1)..(j - 1) :
                /\ IsApprovalRequest(messages[q])
                /\ \E i \in 1..(q - 1) :
                       /\ IsRequest(messages[i])
                       /\ \E k \in 1..Len(messages[i].tool_calls) :
                              messages[i].tool_calls[k].id = messages[j].tool_call_id
                /\ messages[h].type = "human"
                /\ ~IsApprovalRequest(messages[h])
                /\ contains(lower(messages[h].content), APPROVE)

\* ---------------------------------------------------------------- C36
\* C36: get_tools_for_agent(a) holds no tool twice, for every agent type a,
\* after create_tool_registry and after any later registration.
C36_NoToolRegisteredTwice ==
    \A a \in AgentTypes :
        LET tools == get_tools_for_agent(registry, a)
        IN \A i \in 1..Len(tools) : \A j \in 1..Len(tools) :
               tools[i] = tools[j] => i = j

\* ---------------------------------------------------------------- C38
\* The memories a search call without an extra filter has to return: those
\* saved for its agent type and user whose content holds the query.
Expected(call) ==
    { k \in 1..Len(memory_store) :
        /\ memory_store[k].agent_type = call.agent_type
        /\ memory_store[k].user_id = call.user_id
        /\ contains(memory_store[k].content, call.query) }

\* C38: a search without an extra filter returns every memory saved before
\* it for the same agent type and user whose content holds the query,
\* unless the results already fill the limit.
C38_SavedMemoryIsFound ==
    [][(search_call' # search_call /\ search_call'.filter_metadata = {}) =>
           \/ \A k \in Expected(search_call') :
                  \E i \in 1..Len(search_call'.results) :
                      search_call'.results[i] = memory_store[k]
           \/ Len(search_call'.results) >= search_call'.limit]_vars

\* ---------------------------------------------------------------- C39
LongTermAgents == {"router", "personal_assistant"}

\* C39: a search returns only memories saved for the user of the call, and
\* only memories of the agent type of the call, router and personal
\* assistant counting as one; it returns at most `limit` results; router and
\* personal assistant have the same namespace for a user.
C39_SearchStaysInScope ==
    /\ search_call.called =>
           /\ \A i \in 1..Len(search_call.results) :
                  /\ search_call.results[i].user_id = search_call.user_id
                  /\ \/ search_call.results[i].agent_type = search_call.agent_type
                     \/ {search_call.results[i].agent_type, search_call.agent_type}
                            \subseteq LongTermAgents
           /\ Len(search_call.results) <= search_call.limit
    /\ \A u \in UserIds :
           get_namespace_for_agent("router", u)
               = get_namespace_for_agent("personal_assistant", u)

====
